---- MODULE Spec2Model ----
(***************************************************************************)
(* A model of the session pool (UserSessionManager,                        *)
(* src/telegram/user/telegram_session_manager.py), of the credential and   *)
(* onboarding tables it reads and writes, and of the directory storage     *)
(* engine (PostgresStorage, src/telegram/user/storage/telegram_storage.py) *)
(* with the peer table behind it.  Every await of the Python code is a     *)
(* step boundary; the code between two awaits is one atomic step.          *)
(***************************************************************************)
EXTENDS Integers, Sequences, FiniteSets, TLC

\* ---------------------------------------------------------------- bounds
NumOwners == 4
NumProcs == 3
MaxSids == 5
\* per specification: instances that may be constructed, and the clock's end
GocSids == 3
SeqSids == 4
SeqTime == 1
LruSids == 5
LruTime == 1
SweepSids == 3
SweepTime == 4
\* configurations: max_sessions and session_ttl (in clock ticks)
SeqCap == 2
LruCap == 3
SweepTtl == 1

\* the directory: peer ids, access hashes, peers in one update_peers call,
\* callers of one storage, the clock's end, and the operations counted
\* while no flush succeeds
NumPeers == 2
NumHashes == 2
MaxBatch == 2
NumStoreProcs == 2
StoreTime == 1
MaxOps == 4
\* BATCH_SIZE (50), PEERS_THRESHOLD (25) and BATCH_TIME (5.0 s) at the scale
\* of the model
BatchSize == 3
PeersThreshold == 2
BatchTime == 1
UsernamesTtl == 1
NumStateIds == 2
NumStateVals == 2
ResolveTime == 2
NumUowTasks == 2
UowSessions == 3

Owners == 1..NumOwners
Procs == 1..NumProcs
Sids == 1..MaxSids
NoOwner == 0
NoSid == 0
\* holders of _global_lock: a caller (1..NumProcs), the cleanup task, or nobody
Sweeper == 0
Free == -1

VARIABLES
    sessions,          \* _sessions: the OrderedDict's keys, oldest first
    sessionOf,         \* _sessions: owner -> session instance (NoSid: absent)
    lastAccess,        \* _last_access: dict in insertion order, <<owner, time>>
    locks,             \* _locks: owner -> generation of its Lock (<= 0: no entry)
    lockHeld,          \* the Lock objects <<owner, generation>> that are held
    globalLock,        \* _global_lock: its holder (a proc, "sweep" or "free")
    maxSessions,       \* _max_sessions
    sessionTtl,        \* _session_ttl
    now,               \* datetime.now()
    nextSid,           \* the next TelegramUser instance to be constructed
    started,           \* instance -> how its start() ended ("no": not yet)
    stops,             \* instance -> number of stop() calls made on it
    telegramSessions,  \* table telegram_sessions: owner -> number of rows
    userOnboarding,    \* table user_onboarding: owner -> number of rows
    call,              \* per caller: the call in flight or the last one made
    sweep,             \* the cleanup task: its position and locals
    bound,             \* the run's bounds: instances to construct, clock's end
    touched            \* history: owner -> when its resident session was last
                       \* inserted or accessed (-1: none resident)

poolVars == <<sessions, sessionOf, lastAccess, locks, lockHeld, globalLock,
              maxSessions, sessionTtl, now, nextSid, started, stops,
              telegramSessions, userOnboarding, call, sweep, bound,
              touched>>

VARIABLES
    storage,           \* the PostgresStorage object: its caches and buffers
    batchLock,         \* _batch_lock: its holder (a caller or nobody)
    dbPeers,           \* table telegram_peers: the rows of the storage's owner
    dbUsernames,       \* table telegram_usernames: the rows of the owner
    dbUpdateState,     \* table telegram_update_state: the rows of the owner
    otherUsernames,    \* table telegram_usernames: the rows of other owners
    scall,             \* per caller of the storage: the call in flight or
                       \* the last one made
    written,           \* history: peer id -> the peer last given to
                       \* update_peers, and the access_hash given before it
    failed             \* history: "intact" once a flush has raised, "changed"
                       \* once a buffer was written to after that, "none"
                       \* once a flush has succeeded

storeVars ==
    <<storage, batchLock, dbPeers, dbUsernames, dbUpdateState, otherUsernames,
      scall, written, failed>>

VARIABLES
    uow                \* a UnitOfWork, its session factory and its callers

vars == <<poolVars, storeVars, uow>>

\* ------------------------------------------------- OrderedDict and dict
Range(s) == {s[i] : i \in 1..Len(s)}

SeqRemove(s, o) == SelectSeq(s, LAMBDA x : x # o)

\* A key that keeps its place.
KeepPlace(s, o) == s

\* OrderedDict.move_to_end(key)
MoveToEnd(s, o) == Append(SeqRemove(s, o), o)

\* The key that OrderedDict.popitem(last=True) would take.
PopItemLast(s) == s[Len(s)]

\* The key that OrderedDict.popitem(last=False) takes.
PopItemFirst(s) == Head(s)

\* OrderedDict.__setitem__: a new key goes last, an existing key keeps its place
SetItem(s, o) == IF o \in Range(s) THEN s ELSE Append(s, o)

Resident(o) == sessionOf[o] # NoSid

LaHas(la, o) == \E i \in 1..Len(la) : la[i][1] = o

LaGet(la, o) == LET i == CHOOSE j \in 1..Len(la) : la[j][1] = o IN la[i][2]

\* dict.__setitem__: an existing key keeps its place
LaSet(la, o, t) ==
    IF LaHas(la, o)
    THEN [i \in 1..Len(la) |-> IF la[i][1] = o THEN <<o, t>> ELSE la[i]]
    ELSE Append(la, <<o, t>>)

LaDel(la, o) == SelectSeq(la, LAMBDA e : e[1] # o)

LaKeys(la) == {la[i][1] : i \in 1..Len(la)}

\* --------------------------------------------------------------- locks
LockOf(o) == <<o, locks[o]>>

\* "if owner_id not in self._locks: self._locks[owner_id] = asyncio.Lock()"
\* (an absent key holds minus the number of locks the owner has had, so that
\* a lock made after a clear() is another lock than the one before it)
EnsureLock(lk, o) == IF lk[o] <= 0 THEN [lk EXCEPT ![o] = 1 - lk[o]] ELSE lk

\* self._locks.clear()
ClearLocks(lk) == [o \in Owners |-> IF lk[o] > 0 THEN -lk[o] ELSE lk[o]]

\* A lock that excludes nobody.
LockNeverHeld(held, l) == FALSE

\* One lock for every owner: a call waits while any lock is held.
AnyLockHeld(held, l) == held # {}

\* asyncio.Lock.acquire returns at once on a free lock and waits on a held one
Locked(held, l) == l \in held

\* leaving "async with lock": the lock is released on return and on exception
Release(held, l) == held \ {l}

\* ----------------------------------------------------------- call records
Idle == [pc |-> "idle", op |-> "none", owner |-> NoOwner, sid |-> NoSid,
         lock |-> <<0, 0>>, res |-> "none", rsid |-> NoSid,
         victim |-> NoOwner, vsid |-> NoSid, waited |-> FALSE,
         again |-> FALSE, hist |-> <<>>, todo |-> <<>>, snap |-> {},
         raised |-> {}, users |-> <<>>]

\* now, expired, owner: the locals of _cleanup_expired_sessions and of the
\* _remove_session it awaits.  History: vsid, the instance being stopped;
\* vfresh, whether it was within its TTL when it was popped; stale, the
\* instances that were resident and past their TTL when the pass listed the
\* expired owners; pass, the parity of the number of completed passes.
\* cancel: Task.cancel() has been called and the CancelledError is still to
\* be thrown into the task.
SweepIdle == [pc |-> "idle", now |-> 0, expired |-> <<>>, owner |-> NoOwner,
              vsid |-> NoSid, vfresh |-> FALSE, stale |-> {}, pass |-> 0,
              cancel |-> FALSE]

\* The calls that have still to construct a TelegramUser instance.
Constructing ==
    {p \in Procs : call[p].pc \in {"goc_wait", "goc_load", "goc_create", "cn_create"}}

\* A call that may construct an instance begins only while instances are left.
SidsLeft == nextSid + Cardinality(Constructing) <= bound.sids

\* A call ends: its locals are gone, and what it was and returned is kept
\* (waited: whether it had to wait for its lock; again: whether the caller's
\* call before it was the same operation for the same owner; hist: the
\* caller's first bound.hist completed calls, each as
\* <<operation, owner, result, instance>>).
Finish(c, res, rsid) ==
    [Idle EXCEPT !.op = c.op, !.owner = c.owner, !.res = res, !.rsid = rsid,
                 !.waited = c.waited, !.again = c.again,
                 !.hist = IF Len(c.hist) < bound.hist
                          THEN Append(c.hist, <<c.op, c.owner, res, rsid>>)
                          ELSE c.hist]

\* ------------------------------------------------------- UnitOfWork
\* The tasks that use the unit, each in its own context (asyncio copies the
\* context into every task).
UowTasks == 1..NumUowTasks

NoSession == 0

\* A contextvars.Token: the context it was made in and the value before it.
NoToken == [ctx |-> 0, old |-> FALSE]

\* UnitOfWork.__init__: no session, no token; in no context is current_uow
\* set.  next: the next AsyncSession object of the factory.
NewUow ==
    [session |-> NoSession, token |-> NoToken, next |-> 1,
     task |-> [t \in UowTasks |-> [pc |-> "idle", session |-> NoSession,
                                   res |-> "none", cur |-> FALSE]]]

\* The pool as constructed, over a database where the owners 1..creds have a
\* credential row (the tables outlive the process).
InitPoolH(cap, ttl, sids, time, creds, hist) ==
    /\ sessions = <<>>
    /\ sessionOf = [o \in Owners |-> NoSid]
    /\ lastAccess = <<>>
    /\ locks = [o \in Owners |-> 0]
    /\ lockHeld = {}
    /\ globalLock = Free
    /\ maxSessions = cap
    /\ sessionTtl = ttl
    /\ bound = [sids |-> sids, time |-> time, hist |-> hist]
    /\ now = 0
    /\ nextSid = 1
    /\ started = [s \in Sids |-> "no"]
    /\ stops = [s \in Sids |-> 0]
    /\ telegramSessions = [o \in Owners |-> IF o <= creds THEN 1 ELSE 0]
    /\ userOnboarding = [o \in Owners |-> 0]
    /\ call = [p \in Procs |-> Idle]
    /\ sweep = SweepIdle
    /\ touched = [o \in Owners |-> -1]
    /\ uow = NewUow

InitPool(cap, ttl, sids, time, creds) == InitPoolH(cap, ttl, sids, time, creds, 0)

\* ------------------------------------------------------------ the clock
Tick ==
    /\ now < bound.time
    /\ now' = now + 1
    /\ UNCHANGED <<storeVars, uow, sessions, sessionOf, lastAccess, locks, lockHeld, globalLock,
                   maxSessions, bound, sessionTtl, nextSid, started, stops,
                   telegramSessions, userOnboarding, call, sweep, touched>>

\* -------------------------------------------------- the credential store
\* TelegramSessions.get_or_create: select, and insert only when no row exists
SessionsGetOrCreate(rows, o) ==
    IF rows[o] > 0 THEN rows ELSE [rows EXCEPT ![o] = @ + 1]

\* PostgresStorage.create(user_id = o): the only writer of telegram_sessions
StorageCreate(o) ==
    /\ telegramSessions' = SessionsGetOrCreate(telegramSessions, o)
    /\ telegramSessions' # telegramSessions
    /\ UNCHANGED <<storeVars, uow, sessions, sessionOf, lastAccess, locks, lockHeld, globalLock,
                   maxSessions, bound, sessionTtl, now, nextSid, started,
                   stops, userOnboarding, call, sweep, touched>>

\* ------------------------------------------------- get_or_create_session
\* Inside "async with self._locks[owner_id]", up to the first await: a resident
\* owner is a hit (recency refreshed, the lock released on return); a miss
\* goes on to await TelegramSessions.get with the lock held.
GocLocked(p, c) ==
    LET o == c.owner IN
    IF Resident(o)
    THEN /\ lastAccess' = LaSet(lastAccess, o, now)
         /\ sessions' = MoveToEnd(sessions, o)
         /\ touched' = [touched EXCEPT ![o] = now]
         /\ call' = [call EXCEPT ![p] = Finish(c, "ok", sessionOf[o])]
         /\ lockHeld' = Release(lockHeld, c.lock)
    ELSE /\ lockHeld' = lockHeld \cup {c.lock}
         /\ call' = [call EXCEPT ![p] = [c EXCEPT !.pc = "goc_load"]]
         /\ UNCHANGED <<sessions, lastAccess, touched>>

GocCall(p, o) ==
    /\ call[p].pc = "idle"
    /\ SidsLeft
    /\ LET lk == EnsureLock(locks, o)
           c == [Idle EXCEPT !.hist = call[p].hist, !.op = "goc", !.owner = o, !.lock = <<o, lk[o]>>]
       IN /\ locks' = lk
          /\ IF Locked(lockHeld, c.lock)
             THEN /\ call' = [call EXCEPT ![p] = [c EXCEPT !.pc = "goc_wait",
                                                          !.waited = TRUE]]
                  /\ UNCHANGED <<sessions, lastAccess, lockHeld, touched>>
             ELSE GocLocked(p, c)
    /\ UNCHANGED <<storeVars, uow, sessionOf, globalLock, maxSessions, bound, sessionTtl, now, nextSid,
                   started, stops, telegramSessions, userOnboarding,
                   sweep>>

GocAcquire(p) ==
    /\ call[p].pc = "goc_wait"
    /\ ~Locked(lockHeld, call[p].lock)
    /\ GocLocked(p, call[p])
    /\ UNCHANGED <<storeVars, uow, sessionOf, locks, globalLock, maxSessions, bound, sessionTtl, now,
                   nextSid, started, stops, telegramSessions,
                   userOnboarding, sweep>>

\* The call fails and its lock stays held.
GocNotFoundLeak(p) ==
    /\ call' = [call EXCEPT ![p] = Finish(call[p], "not_found", NoSid)]
    /\ UNCHANGED lockHeld

\* TelegramSessions.get found no row: its assertion fails, the exception leaves
\* "async with" and the call.
GocNotFound(p) ==
    /\ call' = [call EXCEPT ![p] = Finish(call[p], "not_found", NoSid)]
    /\ lockHeld' = Release(lockHeld, call[p].lock)

GocLoad(p) ==
    /\ call[p].pc = "goc_load"
    /\ IF telegramSessions[call[p].owner] = 0
       THEN GocNotFound(p)
       ELSE /\ call' = [call EXCEPT ![p].pc = "goc_create"]
            /\ UNCHANGED lockHeld
    /\ UNCHANGED <<storeVars, uow, sessions, sessionOf, lastAccess, locks, globalLock,
                   maxSessions, bound, sessionTtl, now, nextSid, started,
                   stops, telegramSessions, userOnboarding, sweep, touched>>

\* TelegramUser.create: a new instance
Construct(p, nextPc) ==
    /\ call' = [call EXCEPT ![p].pc = nextPc, ![p].sid = nextSid]
    /\ nextSid' = nextSid + 1

GocCreate(p) ==
    /\ call[p].pc = "goc_create"
    /\ Construct(p, "goc_start")
    /\ UNCHANGED <<storeVars, uow, sessions, sessionOf, lastAccess, locks, lockHeld, globalLock,
                   maxSessions, bound, sessionTtl, now, started, stops,
                   telegramSessions, userOnboarding, sweep, touched>>

\* start() returned: "self._sessions[owner_id] = user_session;
\* self._last_access[owner_id] = datetime.now()", then the lock is released.
StartOk(p) ==
    LET o == call[p].owner IN
    /\ started' = [started EXCEPT ![call[p].sid] = "yes"]
    /\ sessions' = SetItem(sessions, o)
    /\ sessionOf' = [sessionOf EXCEPT ![o] = call[p].sid]
    /\ lastAccess' = LaSet(lastAccess, o, now)
    /\ touched' = [touched EXCEPT ![o] = now]
    /\ lockHeld' = Release(lockHeld, call[p].lock)
    /\ call' = [call EXCEPT ![p] = Finish(call[p], "ok", call[p].sid)]

\* start() raised and the lock stays held.
StartFailKeepsLock(p) ==
    /\ started' = [started EXCEPT ![call[p].sid] = "raised"]
    /\ call' = [call EXCEPT ![p] = Finish(call[p], "start_failed", NoSid)]
    /\ UNCHANGED <<sessions, sessionOf, lastAccess, touched, lockHeld>>

\* start() raised: nothing is cached, the exception leaves "async with".
StartFail(p) ==
    /\ started' = [started EXCEPT ![call[p].sid] = "raised"]
    /\ lockHeld' = Release(lockHeld, call[p].lock)
    /\ call' = [call EXCEPT ![p] = Finish(call[p], "start_failed", NoSid)]
    /\ UNCHANGED <<sessions, sessionOf, lastAccess, touched>>

GocStartOk(p) ==
    /\ call[p].pc = "goc_start"
    /\ StartOk(p)
    /\ UNCHANGED <<storeVars, uow, locks, globalLock, maxSessions, bound, sessionTtl, now, nextSid,
                   stops, telegramSessions, userOnboarding, sweep>>

GocStartFail(p) ==
    /\ call[p].pc = "goc_start"
    /\ StartFail(p)
    /\ UNCHANGED <<storeVars, uow, locks, globalLock, maxSessions, bound, sessionTtl, now, nextSid,
                   stops, telegramSessions, userOnboarding, sweep>>

\* ---------------------------------------------------- create_new_session
CnCall(p, o) ==
    /\ call[p].pc = "idle"
    /\ SidsLeft
    /\ call' = [call EXCEPT ![p] = [Idle EXCEPT !.hist = call[p].hist,
                                                !.op = "cn", !.owner = o,
                                                !.pc = "cn_create",
                                                !.again = /\ call[p].op = "cn"
                                                          /\ call[p].owner = o]]
    /\ UNCHANGED <<storeVars, uow, sessions, sessionOf, lastAccess, locks, lockHeld, globalLock,
                   maxSessions, bound, sessionTtl, now, nextSid, started,
                   stops, telegramSessions, userOnboarding, sweep, touched>>

CnCreate(p) ==
    /\ call[p].pc = "cn_create"
    /\ Construct(p, "cn_onboard")
    /\ UNCHANGED <<storeVars, uow, sessions, sessionOf, lastAccess, locks, lockHeld, globalLock,
                   maxSessions, bound, sessionTtl, now, started, stops,
                   telegramSessions, userOnboarding, sweep, touched>>

\* The eviction leaves its victim in the registry while it awaits stop().
CnLockedPeek(p, c) ==
    /\ lockHeld' = lockHeld \cup {c.lock}
    /\ IF Len(sessions) >= maxSessions
       THEN LET v == PopItemFirst(sessions) IN
            /\ call' = [call EXCEPT ![p] = [c EXCEPT !.pc = "cn_evict",
                                                     !.victim = v,
                                                     !.vsid = sessionOf[v]]]
            /\ UNCHANGED <<sessions, sessionOf, touched>>
       ELSE /\ call' = [call EXCEPT ![p] = [c EXCEPT !.pc = "cn_start"]]
            /\ UNCHANGED <<sessions, sessionOf, touched>>

\* Inside "async with self._locks[owner_id]", up to the first await: at
\* capacity _evict_lru_session pops the first key and awaits its stop();
\* below capacity the call goes on to await start().
CnLocked(p, c) ==
    /\ lockHeld' = lockHeld \cup {c.lock}
    /\ IF Len(sessions) >= maxSessions
       THEN LET v == PopItemFirst(sessions) IN
            /\ sessions' = SeqRemove(sessions, v)
            /\ sessionOf' = [sessionOf EXCEPT ![v] = NoSid]
            /\ touched' = [touched EXCEPT ![v] = -1]
            /\ call' = [call EXCEPT ![p] = [c EXCEPT !.pc = "cn_evict",
                                                     !.victim = v,
                                                     !.vsid = sessionOf[v]]]
       ELSE /\ call' = [call EXCEPT ![p] = [c EXCEPT !.pc = "cn_start"]]
            /\ UNCHANGED <<sessions, sessionOf, touched>>

\* From the return of OnboardingSchema.create to the first await after it.
CnTakeLock(p) ==
    LET o == call[p].owner
        lk == EnsureLock(locks, o)
        c == [call[p] EXCEPT !.lock = <<o, lk[o]>>]
    IN /\ locks' = lk
       /\ IF Locked(lockHeld, c.lock)
          THEN /\ call' = [call EXCEPT ![p] = [c EXCEPT !.pc = "cn_wait",
                                                       !.waited = TRUE]]
               /\ UNCHANGED <<sessions, sessionOf, lockHeld, touched>>
          ELSE CnLocked(p, c)

\* OnboardingSchema.create, the select: an existing row ends it.
CnOnboardSelect(p) ==
    /\ call[p].pc = "cn_onboard"
    /\ IF userOnboarding[call[p].owner] > 0
       THEN CnTakeLock(p)
       ELSE /\ call' = [call EXCEPT ![p].pc = "cn_onboard_insert"]
            /\ UNCHANGED <<sessions, sessionOf, locks, lockHeld, touched>>
    /\ UNCHANGED <<storeVars, uow, lastAccess, globalLock, maxSessions, bound, sessionTtl, now, nextSid,
                   started, stops, telegramSessions, userOnboarding,
                   sweep>>

\* The insert into user_onboarding is accepted only if its foreign key
\* (owner_id -> telegram_sessions.owner_id) and its primary key allow it.
OnboardingInsertable(o) == telegramSessions[o] > 0 /\ userOnboarding[o] = 0

\* OnboardingSchema.create, the insert and commit.
CnOnboardInsert(p) ==
    /\ call[p].pc = "cn_onboard_insert"
    /\ IF OnboardingInsertable(call[p].owner)
       THEN /\ userOnboarding' = [userOnboarding EXCEPT ![call[p].owner] = @ + 1]
            /\ CnTakeLock(p)
       ELSE /\ call' = [call EXCEPT ![p] = Finish(call[p], "integrity_error", NoSid)]
            /\ UNCHANGED <<sessions, sessionOf, locks, lockHeld, userOnboarding,
                           touched>>
    /\ UNCHANGED <<storeVars, uow, lastAccess, globalLock, maxSessions, bound, sessionTtl, now, nextSid,
                   started, stops, telegramSessions, sweep>>

CnAcquire(p) ==
    /\ call[p].pc = "cn_wait"
    /\ ~Locked(lockHeld, call[p].lock)
    /\ CnLocked(p, call[p])
    /\ UNCHANGED <<storeVars, uow, lastAccess, locks, globalLock, maxSessions, bound, sessionTtl, now,
                   nextSid, started, stops, telegramSessions,
                   userOnboarding, sweep>>

\* _evict_lru_session after "await session.stop()" (an exception of stop() is
\* logged and swallowed): "del self._last_access[owner_id]", a KeyError when
\* the entry is gone, which leaves "async with" and the call.
CnEvicted(p) ==
    /\ call[p].pc = "cn_evict"
    /\ stops' = [stops EXCEPT ![call[p].vsid] = @ + 1]
    /\ IF LaHas(lastAccess, call[p].victim)
       THEN /\ lastAccess' = LaDel(lastAccess, call[p].victim)
            /\ call' = [call EXCEPT ![p].pc = "cn_start"]
            /\ UNCHANGED lockHeld
       ELSE /\ lockHeld' = Release(lockHeld, call[p].lock)
            /\ call' = [call EXCEPT ![p] = Finish(call[p], "key_error", NoSid)]
            /\ UNCHANGED lastAccess
    /\ UNCHANGED <<storeVars, uow, sessions, sessionOf, locks, globalLock, maxSessions, bound,
                   sessionTtl, now, nextSid, started,
                   telegramSessions, userOnboarding, sweep, touched>>

CnStartOk(p) ==
    /\ call[p].pc = "cn_start"
    /\ StartOk(p)
    /\ UNCHANGED <<storeVars, uow, locks, globalLock, maxSessions, bound, sessionTtl, now, nextSid,
                   stops, telegramSessions, userOnboarding, sweep>>

CnStartFail(p) ==
    /\ call[p].pc = "cn_start"
    /\ StartFail(p)
    /\ UNCHANGED <<storeVars, uow, locks, globalLock, maxSessions, bound, sessionTtl, now, nextSid,
                   stops, telegramSessions, userOnboarding, sweep>>

\* ---------------------------------------------------- extend_session_ttl
ExtendTtl(p, o) ==
    /\ call[p].pc = "idle"
    /\ LET c == [Idle EXCEPT !.hist = call[p].hist, !.op = "extend", !.owner = o] IN
       IF ~Resident(o)
       THEN /\ call' = [call EXCEPT ![p] = Finish(c, "false", NoSid)]
            /\ UNCHANGED <<sessions, lastAccess, touched>>
       ELSE /\ lastAccess' = LaSet(lastAccess, o, now)
            /\ touched' = [touched EXCEPT ![o] = now]
            /\ sessions' = MoveToEnd(sessions, o)
            /\ call' = [call EXCEPT ![p] = Finish(c, "true", sessionOf[o])]
    /\ UNCHANGED <<storeVars, uow, sessionOf, locks, lockHeld, globalLock, maxSessions, bound,
                   sessionTtl, now, nextSid, started, stops,
                   telegramSessions, userOnboarding, sweep>>

\* ----------------------------------------- stop_session, _remove_session
\* Inside "async with self._global_lock", up to the first await:
\* _remove_session pops a resident owner and awaits its stop(); for an owner
\* that is not resident it only drops the recency entry and returns.
StopLocked(p, c) ==
    LET o == c.owner IN
    IF Resident(o)
    THEN /\ sessions' = SeqRemove(sessions, o)
         /\ sessionOf' = [sessionOf EXCEPT ![o] = NoSid]
         /\ touched' = [touched EXCEPT ![o] = -1]
         /\ globalLock' = p
         /\ call' = [call EXCEPT ![p] = [c EXCEPT !.pc = "stop_stop",
                                                  !.vsid = sessionOf[o]]]
         /\ UNCHANGED lastAccess
    ELSE /\ lastAccess' = LaDel(lastAccess, o)
         /\ call' = [call EXCEPT ![p] = Finish(c, "ok", NoSid)]
         /\ UNCHANGED <<sessions, sessionOf, globalLock, touched>>

StopCall(p, o) ==
    /\ call[p].pc = "idle"
    /\ LET c == [Idle EXCEPT !.hist = call[p].hist, !.op = "stop", !.owner = o] IN
       IF globalLock # Free
       THEN /\ call' = [call EXCEPT ![p] = [c EXCEPT !.pc = "stop_wait"]]
            /\ UNCHANGED <<sessions, sessionOf, lastAccess, globalLock, touched>>
       ELSE StopLocked(p, c)
    /\ UNCHANGED <<storeVars, uow, locks, lockHeld, maxSessions, bound, sessionTtl, now, nextSid,
                   started, stops, telegramSessions, userOnboarding,
                   sweep>>

StopAcquire(p) ==
    /\ call[p].pc = "stop_wait"
    /\ globalLock = Free
    /\ StopLocked(p, call[p])
    /\ UNCHANGED <<storeVars, uow, locks, lockHeld, maxSessions, bound, sessionTtl, now, nextSid,
                   started, stops, telegramSessions, userOnboarding,
                   sweep>>

\* _remove_session after "await session.stop()" (an exception of stop() is
\* logged and swallowed): the recency entry is dropped if there is one.
StopStopped(p) ==
    /\ call[p].pc = "stop_stop"
    /\ stops' = [stops EXCEPT ![call[p].vsid] = @ + 1]
    /\ lastAccess' = LaDel(lastAccess, call[p].owner)
    /\ globalLock' = Free
    /\ call' = [call EXCEPT ![p] = Finish(call[p], "ok", NoSid)]
    /\ UNCHANGED <<storeVars, uow, sessions, sessionOf, locks, lockHeld, maxSessions, bound,
                   sessionTtl, now, nextSid, started,
                   telegramSessions, userOnboarding, sweep, touched>>

\* ------------------------------- _periodic_cleanup, _cleanup_expired_sessions
\* "if now - last_access > self._session_ttl"
Expired(t, at) == t - at > sessionTtl

\* The expired owners, in the order of the _last_access dict.
ExpiredOwners(la, t) ==
    LET e == SelectSeq(la, LAMBDA x : Expired(t, x[2]))
    IN [i \in 1..Len(e) |-> e[i][1]]

\* _remove_session for the owners at the head of the list that are not
\* resident: no await, only the recency entry is dropped.
RECURSIVE SkipGone(_, _)
SkipGone(exp, la) ==
    IF exp = <<>> \/ Resident(Head(exp))
    THEN [exp |-> exp, la |-> la]
    ELSE SkipGone(Tail(exp), LaDel(la, Head(exp)))

\* The "for owner_id in expired_owners" loop up to its next await: the next
\* resident owner is popped and its stop() awaited; at the end of the list
\* the global lock is released and the task sleeps again.
SweepLoop(s, exp, la) ==
    LET r == SkipGone(exp, la) IN
    IF r.exp = <<>>
    THEN /\ lastAccess' = r.la
         /\ globalLock' = Free
         /\ sweep' = [s EXCEPT !.pc = "idle", !.expired = <<>>,
                               !.pass = 1 - s.pass]
         /\ UNCHANGED <<sessions, sessionOf, touched>>
    ELSE LET o == Head(r.exp) IN
         /\ lastAccess' = r.la
         /\ globalLock' = Sweeper
         /\ sessions' = SeqRemove(sessions, o)
         /\ sessionOf' = [sessionOf EXCEPT ![o] = NoSid]
         /\ touched' = [touched EXCEPT ![o] = -1]
         /\ sweep' = [s EXCEPT !.pc = "stop", !.expired = Tail(r.exp),
                               !.owner = o, !.vsid = sessionOf[o],
                               !.vfresh = /\ LaHas(r.la, o)
                                          /\ ~Expired(now, LaGet(r.la, o))]

\* Inside "async with self._global_lock": the expired owners are listed.
SweepLocked(s) ==
    SweepLoop([s EXCEPT !.stale = {<<o, sessionOf[o]>> : o \in
                                     {x \in Owners : /\ Resident(x)
                                                     /\ Expired(s.now, touched[x])}}],
              ExpiredOwners(lastAccess, s.now), lastAccess)

\* The sleep of _periodic_cleanup ends: "now = datetime.now()", then the
\* global lock is taken, at once if it is free.
SweepBegin ==
    /\ sweep.pc = "idle"
    /\ ~sweep.cancel
    /\ LET s == [sweep EXCEPT !.now = now] IN
       IF globalLock # Free
       THEN /\ sweep' = [s EXCEPT !.pc = "wait"]
            /\ UNCHANGED <<sessions, sessionOf, lastAccess, globalLock, touched>>
       ELSE SweepLocked(s)
    /\ UNCHANGED <<storeVars, uow, locks, lockHeld, maxSessions, bound, sessionTtl, now,
                   nextSid, started, stops, telegramSessions,
                   userOnboarding, call>>

SweepAcquire ==
    /\ sweep.pc = "wait"
    /\ ~sweep.cancel
    /\ globalLock = Free
    /\ SweepLocked(sweep)
    /\ UNCHANGED <<storeVars, uow, locks, lockHeld, maxSessions, bound, sessionTtl, now,
                   nextSid, started, stops, telegramSessions,
                   userOnboarding, call>>

\* The pass goes on with its loop although the task has been cancelled.
SweepStoppedLate ==
    /\ sweep.pc = "stop"
    /\ stops' = [stops EXCEPT ![sweep.vsid] = @ + 1]
    /\ SweepLoop(sweep, sweep.expired, LaDel(lastAccess, sweep.owner))
    /\ UNCHANGED <<storeVars, uow, locks, lockHeld, maxSessions, bound, sessionTtl, now,
                   nextSid, started, telegramSessions,
                   userOnboarding, call>>

\* _remove_session after "await session.stop()", then the rest of the loop.
SweepStopped ==
    /\ sweep.pc = "stop"
    /\ ~sweep.cancel
    /\ stops' = [stops EXCEPT ![sweep.vsid] = @ + 1]
    /\ SweepLoop(sweep, sweep.expired, LaDel(lastAccess, sweep.owner))
    /\ UNCHANGED <<storeVars, uow, locks, lockHeld, maxSessions, bound, sessionTtl, now,
                   nextSid, started, telegramSessions,
                   userOnboarding, call>>

\* The CancelledError is thrown into the cleanup task at its await: it is no
\* Exception, so neither _remove_session nor _periodic_cleanup catches it;
\* it leaves "async with self._global_lock" if the task is inside, and the
\* task ends.  A stop() that was being awaited has been invoked.
SweepCancelled ==
    /\ sweep.cancel
    /\ sweep.pc # "done"
    /\ sweep' = [sweep EXCEPT !.pc = "done", !.cancel = FALSE]
    /\ IF sweep.pc = "stop"
       THEN /\ globalLock' = Free
            /\ stops' = [stops EXCEPT ![sweep.vsid] = @ + 1]
       ELSE UNCHANGED <<globalLock, stops>>
    /\ UNCHANGED <<storeVars, uow, sessions, sessionOf, lastAccess, locks, lockHeld,
                   maxSessions, bound, sessionTtl, now, nextSid, started,
                   telegramSessions, userOnboarding, call, touched>>

\* -------------------------------------------------- stop_all_sessions
\* The "for owner_id in list(self._sessions.keys())" loop up to its next
\* await: _remove_session pops the next owner that is still resident and
\* awaits its stop(); after the last owner the lock map is cleared and the
\* call returns (snap, raised: the instances that were resident at the call
\* and those whose stop() raised).
StopAllLoop(p, c, todo, la) ==
    LET r == SkipGone(todo, la) IN
    IF r.exp = <<>>
    THEN /\ lastAccess' = r.la
         /\ locks' = ClearLocks(locks)
         /\ call' = [call EXCEPT ![p] =
                [Finish([c EXCEPT !.owner = NoOwner], "ok", NoSid)
                    EXCEPT !.snap = c.snap, !.raised = c.raised]]
         /\ UNCHANGED <<sessions, sessionOf, touched>>
    ELSE LET o == Head(r.exp) IN
         /\ lastAccess' = r.la
         /\ sessions' = SeqRemove(sessions, o)
         /\ sessionOf' = [sessionOf EXCEPT ![o] = NoSid]
         /\ touched' = [touched EXCEPT ![o] = -1]
         /\ call' = [call EXCEPT ![p] =
                [c EXCEPT !.pc = "all_stop", !.owner = o,
                          !.vsid = sessionOf[o], !.todo = Tail(r.exp)]]
         /\ UNCHANGED locks

\* The cleanup task is cancelled if it has not ended, the resident owners are
\* listed and the loop begins.
StopAllCall(p) ==
    /\ call[p].pc = "idle"
    /\ sweep' = IF sweep.pc # "done" THEN [sweep EXCEPT !.cancel = TRUE]
                                     ELSE sweep
    /\ StopAllLoop(p, [Idle EXCEPT !.hist = call[p].hist, !.op = "stop_all",
                                   !.snap = {<<o, sessionOf[o]>> :
                                                o \in Range(sessions)}],
                   sessions, lastAccess)
    /\ UNCHANGED <<storeVars, uow, lockHeld, globalLock, maxSessions, bound,
                   sessionTtl, now, nextSid, started, stops, telegramSessions,
                   userOnboarding>>

\* An exception of stop() ends the call.
StopAllAborts(p, raised) ==
    /\ call[p].pc = "all_stop"
    /\ stops' = [stops EXCEPT ![call[p].vsid] = @ + 1]
    /\ IF raised
       THEN /\ call' = [call EXCEPT ![p] =
                   [Finish([call[p] EXCEPT !.owner = NoOwner], "raised", NoSid)
                       EXCEPT !.snap = call[p].snap,
                              !.raised = call[p].raised \cup {call[p].vsid}]]
            /\ UNCHANGED <<sessions, sessionOf, lastAccess, locks, touched>>
       ELSE StopAllLoop(p, call[p], call[p].todo,
                        LaDel(lastAccess, call[p].owner))
    /\ UNCHANGED <<storeVars, uow, lockHeld, globalLock, maxSessions, bound,
                   sessionTtl, now, nextSid, started, telegramSessions,
                   userOnboarding, sweep>>

\* _remove_session after "await session.stop()", which returned or raised
\* (an exception is logged and swallowed): the recency entry is dropped if
\* there is one, then the rest of the loop.
StopAllStopped(p, raised) ==
    /\ call[p].pc = "all_stop"
    /\ stops' = [stops EXCEPT ![call[p].vsid] = @ + 1]
    /\ StopAllLoop(p, [call[p] EXCEPT !.raised =
                          IF raised THEN @ \cup {call[p].vsid} ELSE @],
                   call[p].todo, LaDel(lastAccess, call[p].owner))
    /\ UNCHANGED <<storeVars, uow, lockHeld, globalLock, maxSessions, bound,
                   sessionTtl, now, nextSid, started, telegramSessions,
                   userOnboarding, sweep>>

\* ------------------------------------------------------ load_all_sessions
\* TelegramSessions.get_all: every credential row (here in the order of the
\* owner ids).
GetAll == SelectSeq([i \in 1..NumOwners |-> i],
                    LAMBDA o : telegramSessions[o] > 0)

\* A call begins only while instances are left for every credential row.
LoadCall(p) ==
    /\ call[p].pc = "idle"
    /\ nextSid - 1 + Len(GetAll) <= bound.sids
    /\ call' = [call EXCEPT ![p] = [Idle EXCEPT !.hist = call[p].hist,
                                                !.op = "load_all",
                                                !.pc = "load_rows"]]
    /\ UNCHANGED <<storeVars, uow, sessions, sessionOf, lastAccess, locks, lockHeld,
                   globalLock, maxSessions, bound, sessionTtl, now, nextSid,
                   started, stops, telegramSessions, userOnboarding, sweep,
                   touched>>

\* The rows are read; TelegramUser.create is awaited for the first of them.
LoadRows(p) ==
    /\ call[p].pc = "load_rows"
    /\ call' = [call EXCEPT ![p].todo = GetAll,
                            ![p].pc = IF GetAll = <<>> THEN "load_start"
                                                       ELSE "load_create"]
    /\ UNCHANGED <<storeVars, uow, sessions, sessionOf, lastAccess, locks, lockHeld,
                   globalLock, maxSessions, bound, sessionTtl, now, nextSid,
                   started, stops, telegramSessions, userOnboarding, sweep,
                   touched>>

\* TelegramUser.create returned an instance, which joins telegram_users, or
\* raised, which is logged; then the next row, and after the last row the
\* gather of the start() calls is awaited.
LoadCreate(p, ok) ==
    /\ call[p].pc = "load_create"
    /\ LET c == call[p] IN
       /\ call' = [call EXCEPT ![p] =
              [c EXCEPT !.todo = Tail(c.todo),
                        !.users = IF ok THEN Append(@, <<Head(c.todo), nextSid>>)
                                        ELSE @,
                        !.pc = IF Tail(c.todo) = <<>> THEN "load_start"
                                                      ELSE "load_create"]]
       /\ nextSid' = IF ok THEN nextSid + 1 ELSE nextSid
    /\ UNCHANGED <<storeVars, uow, sessions, sessionOf, lastAccess, locks, lockHeld,
                   globalLock, maxSessions, bound, sessionTtl, now,
                   started, stops, telegramSessions, userOnboarding, sweep,
                   touched>>

\* "for owner_id, user in telegram_users": every instance of telegram_users
\* is cached.
CacheUsers(users, fail) == users

\* self._sessions[owner_id] = user; self._last_access[owner_id] = now
RECURSIVE CacheAll(_, _, _, _, _)
CacheAll(users, ss, so, la, t) ==
    IF users = <<>>
    THEN [sessions |-> ss, sessionOf |-> so, lastAccess |-> la]
    ELSE LET o == Head(users)[1] IN
         CacheAll(Tail(users), SetItem(ss, o),
                  [so EXCEPT ![o] = Head(users)[2]], LaSet(la, o, t), t)

\* asyncio.gather(..., return_exceptions=True) returned: the start() of the
\* instances in fail raised, the others returned; then the loop that caches,
\* and the call returns.
LoadStarted(p, fail) ==
    /\ call[p].pc = "load_start"
    /\ LET c == call[p]
           sids == {c.users[i][2] : i \in 1..Len(c.users)}
           cached == CacheUsers(c.users, fail)
           r == CacheAll(cached, sessions, sessionOf, lastAccess, now)
       IN /\ fail \subseteq sids
          /\ started' = [x \in Sids |-> IF x \in fail THEN "raised"
                                        ELSE IF x \in sids THEN "yes"
                                        ELSE started[x]]
          /\ sessions' = r.sessions
          /\ sessionOf' = r.sessionOf
          /\ lastAccess' = r.lastAccess
          /\ touched' = [o \in Owners |->
                            IF \E i \in 1..Len(cached) : cached[i][1] = o
                            THEN now ELSE touched[o]]
          /\ call' = [call EXCEPT ![p] =
                 [Finish(c, "ok", NoSid) EXCEPT !.users = c.users,
                                                !.raised = fail]]
    /\ UNCHANGED <<storeVars, uow, locks, lockHeld, globalLock, maxSessions, bound,
                   sessionTtl, now, nextSid, stops, telegramSessions,
                   userOnboarding, sweep>>

\* ------------------------------------------------------ get_input_peer
\* pyrogram.utils.get_channel_id(peer_id) is MAX_CHANNEL_ID - peer_id;
\* MAX_CHANNEL_ID (-1000000000000) at the scale of the model
MaxChannelId == -1000

GetChannelId(peer_id) == MaxChannelId - peer_id

\* The InputPeer built for a peer; a type outside SUPPORTED_PEER_TYPES raises
\* ValueError.
GetInputPeer(peer_id, access_hash, peer_type) ==
    IF peer_type \in {"user", "bot"}
    THEN [kind |-> "InputPeerUser", user_id |-> peer_id,
          access_hash |-> access_hash]
    ELSE IF peer_type = "group"
    THEN [kind |-> "InputPeerChat", chat_id |-> -peer_id]
    ELSE IF peer_type \in {"channel", "supergroup"}
    THEN [kind |-> "InputPeerChannel", channel_id |-> GetChannelId(peer_id),
          access_hash |-> access_hash]
    ELSE [kind |-> "ValueError"]

NoAddr == [kind |-> "none"]

\* ------------------------------------------------------ PostgresStorage
PeerIds == 1..NumPeers
Hashes == 1..NumHashes
StoreProcs == 1..NumStoreProcs
NoProc == 0
\* the peer types, phone numbers and usernames given to the storage
PeerTypes == {"user", "group", "channel"}
Phones == {"", "555"}
Usernames == {"ann", "Bob"}

\* str.lower()
Lower(u) == IF u = "Bob" THEN "bob" ELSE u

LowerNames == {Lower(u) : u \in Usernames}

\* A TelegramPeers object; NoPeer stands for an absent dict entry.
NoPeer == [id |-> 0, access_hash |-> 0, type |-> "", phone_number |-> "",
           last_update_on |-> 0]

\* TelegramPeers(owner_id=self.telegram_id, id, access_hash, type,
\* phone_number), last_update_on defaulting to the time of construction
PeerObj(t, at) == [id |-> t[1], access_hash |-> t[2], type |-> t[3],
                   phone_number |-> t[4], last_update_on |-> at]

\* The (id, access_hash, type, phone_number) tuples given to update_peers:
\* only a user comes with a phone number.
PeerTuples ==
    {t \in PeerIds \X Hashes \X PeerTypes \X Phones :
        t[4] # "" => t[3] = "user"}

\* The lists of at most MaxBatch of the tuples T, given to update_peers.
Batches(T) == UNION {[1..n -> T] : n \in 0..MaxBatch}

NoNames == [queued |-> FALSE, names |-> {}]

\* PostgresStorage.__init__ at time t, for the owner telegram_id
NewStorage(telegram_id, t) ==
    [telegram_id |-> telegram_id,
     peerCache |-> [i \in PeerIds |-> NoPeer],
     usernameCache |-> [u \in LowerNames |-> 0],
     phoneCache |-> [ph \in Phones \ {""} |-> 0],
     pendingPeers |-> [i \in PeerIds |-> NoPeer],
     pendingUsernames |-> [i \in PeerIds |-> NoNames],
     lastFlushTime |-> t,
     operationCount |-> 0]

\* A row of telegram_update_state of the storage's owner.
NoState == [id |-> 0, pts |-> 0, qts |-> 0, date |-> 0, seq |-> 0]

\* The argument of update_state: the default (the class object), an int or a
\* TelegramUpdateState.
NoValue == [kind |-> "object", id |-> 0, state |-> NoState]

SIdle == [pc |-> "idle", op |-> "none", id |-> 0, res |-> "none",
          addr |-> NoAddr, force |-> FALSE, batch |-> <<>>, names |-> {},
          row |-> NoPeer, name |-> "", at |-> 0, value |-> NoValue,
          rows |-> {}, twice |-> FALSE]

\* The history of a failed flush after a write to a buffer.
Touch(f) == IF f = "intact" THEN "changed" ELSE f

NotWritten == [cur |-> NoPeer, prev |-> 0]

InitStorage ==
    /\ storage = NewStorage(1, 0)
    /\ batchLock = NoProc
    /\ dbPeers = {}
    /\ dbUsernames = {}
    /\ dbUpdateState = {}
    /\ otherUsernames = {}
    /\ scall = [p \in StoreProcs |-> SIdle]
    /\ written = [i \in PeerIds |-> NotWritten]
    /\ failed = "none"

\* A call of the storage ends: what it was and returned is kept.
SFinish(c, res, addr) ==
    [SIdle EXCEPT !.op = c.op, !.id = c.id, !.names = c.names, !.res = res,
                  !.addr = addr, !.twice = c.twice]

PendingPeerIds(self) == {i \in PeerIds : self.pendingPeers[i] # NoPeer}

QueuedUsernameIds(self) == {i \in PeerIds : self.pendingUsernames[i].queued}

\* The callers waiting for _batch_lock.
BatchWaiters ==
    {p \in StoreProcs : scall[p].pc \in {"up_wait", "un_wait", "flush_wait",
                                         "get_wait"}}

\* asyncio.Lock.acquire returns at once only if the lock is free and nobody
\* waits for it.
BatchLockBusy == batchLock # NoProc \/ BatchWaiters # {}

\* _should_flush without the clock.
DueByCount(self, t) ==
    \/ self.operationCount >= BatchSize
    \/ Cardinality(PendingPeerIds(self)) >= PeersThreshold

\* _should_flush at time t
ShouldFlush(self, t) ==
    \/ self.operationCount >= BatchSize
    \/ Cardinality(PendingPeerIds(self)) >= PeersThreshold
    \/ t - self.lastFlushTime >= BatchTime

\* _flush_batch goes on to the writes whatever the buffers hold.
FlushAlways(p, c, self) ==
    /\ storage' = self
    /\ batchLock' = p
    /\ scall' = [scall EXCEPT ![p] = [c EXCEPT !.pc = "flush_peers"]]

\* --------------------------------------------------------- _flush_batch
\* Inside "async with self._batch_lock", up to the first await: nothing to do
\* unless forced or due, nothing to do with both buffers empty; otherwise the
\* write of the first non-empty buffer is awaited with the lock held.
FlushLocked(p, c, self) ==
    /\ storage' = self
    /\ IF \/ ~c.force /\ ~ShouldFlush(self, now)
          \/ PendingPeerIds(self) = {} /\ QueuedUsernameIds(self) = {}
       THEN /\ batchLock' = NoProc
            /\ scall' = [scall EXCEPT ![p] = SFinish(c, "ok", NoAddr)]
       ELSE /\ batchLock' = p
            /\ scall' = [scall EXCEPT ![p] =
                   [c EXCEPT !.pc = IF PendingPeerIds(self) # {}
                                    THEN "flush_peers"
                                    ELSE "flush_usernames"]]

\* "await self._flush_batch(force)": the lock is taken at once or waited for.
FlushEnter(p, c, self) ==
    IF BatchLockBusy
    THEN /\ storage' = self
         /\ scall' = [scall EXCEPT ![p] = [c EXCEPT !.pc = "flush_wait"]]
         /\ UNCHANGED batchLock
    ELSE FlushLocked(p, c, self)

StFlushAcquire(p) ==
    /\ scall[p].pc = "flush_wait"
    /\ batchLock = NoProc
    /\ FlushLocked(p, scall[p], storage)
    /\ UNCHANGED <<poolVars, uow, dbUpdateState, otherUsernames, dbPeers, dbUsernames, written, failed>>

\* "Reset counters", the end of a flush that wrote what it had to write.
FlushDone(p, self) ==
    /\ storage' = [self EXCEPT !.operationCount = 0, !.lastFlushTime = now]
    /\ batchLock' = NoProc
    /\ scall' = [scall EXCEPT ![p] = SFinish(scall[p], "ok", NoAddr)]
    /\ failed' = "none"

\* An exception leaves "async with self._batch_lock" and the call: the
\* buffers and the counters stay as they are.
FlushRaise(p) ==
    /\ batchLock' = NoProc
    /\ scall' = [scall EXCEPT ![p] = SFinish(scall[p], "db_error", NoAddr)]
    /\ failed' = "intact"
    /\ UNCHANGED storage

\* The foreign key of telegram_peers: its owner has a credential row.
PeersInsertable(self) == telegramSessions[self.telegram_id] > 0

\* A plain insert of the rows.
InsertPeers(rows, new) == rows \cup new

\* TelegramPeers.update_many: insert ... on conflict (owner_id, id) do update
UpsertPeers(rows, new) ==
    {r \in rows : \A n \in new : n.id # r.id} \cup new

\* list(self._pending_peers.values())
PeerRows(self) == {self.pendingPeers[i] : i \in PendingPeerIds(self)}

\* The write of the pending peers is committed: the buffer is cleared and the
\* usernames come next, if any are queued.
StFlushPeersOk(p) ==
    /\ scall[p].pc = "flush_peers"
    /\ PeersInsertable(storage)
    /\ dbPeers' = UpsertPeers(dbPeers, PeerRows(storage))
    /\ LET self == [storage EXCEPT !.pendingPeers = [i \in PeerIds |-> NoPeer]]
       IN IF QueuedUsernameIds(self) # {}
          THEN /\ storage' = self
               /\ scall' = [scall EXCEPT ![p].pc = "flush_usernames"]
               /\ UNCHANGED <<batchLock, failed>>
          ELSE FlushDone(p, self)
    /\ UNCHANGED <<poolVars, uow, dbUpdateState, otherUsernames, dbUsernames, written>>

\* The write of the pending peers raises, before anything is stored or
\* (durable) at the commit that follows update_many's own commit.
StFlushPeersFail(p, durable) ==
    /\ scall[p].pc = "flush_peers"
    /\ dbPeers' = IF durable /\ PeersInsertable(storage)
                  THEN UpsertPeers(dbPeers, PeerRows(storage))
                  ELSE dbPeers
    /\ FlushRaise(p)
    /\ UNCHANGED <<poolVars, uow, dbUpdateState, otherUsernames, dbUsernames, written>>

\* TelegramUsernames.update_many keeps, for each (owner_id, id), the first of
\* the objects it is given: for a peer with several queued usernames, any one
\* of them (a set is iterated in no promised order).
UsernameChoices(self) ==
    LET ids == {i \in PeerIds : self.pendingUsernames[i].names # {}}
    IN {f \in [ids -> Usernames] :
          \A i \in ids : f[i] \in self.pendingUsernames[i].names}

UsernameRows(f) == {[id |-> i, username |-> f[i]] : i \in DOMAIN f}

\* The foreign keys of telegram_usernames: the owner has a credential row and
\* each peer has a row in telegram_peers.
UsernamesInsertable(self, new) ==
    /\ telegramSessions[self.telegram_id] > 0
    /\ \A n \in new : \E r \in dbPeers : r.id = n.id

\* insert ... on conflict (owner_id, id) do update set username
UpsertUsernames(rows, new) ==
    {r \in rows : \A n \in new : n.id # r.id} \cup new

\* The write of the queued usernames is committed: the buffer is cleared and
\* the counters are reset.
StFlushUsernamesOk(p) ==
    /\ scall[p].pc = "flush_usernames"
    /\ \E f \in UsernameChoices(storage) :
          /\ UsernamesInsertable(storage, UsernameRows(f))
          /\ dbUsernames' = UpsertUsernames(dbUsernames, UsernameRows(f))
    /\ FlushDone(p, [storage EXCEPT !.pendingUsernames =
                                        [i \in PeerIds |-> NoNames]])
    /\ UNCHANGED <<poolVars, uow, dbUpdateState, otherUsernames, dbPeers, written>>

\* The write of the queued usernames raises: a foreign key fails, or the
\* store does, before anything is stored or (durable) at the second commit.
StFlushUsernamesFail(p, durable) ==
    /\ scall[p].pc = "flush_usernames"
    /\ \E f \in UsernameChoices(storage) :
          dbUsernames' =
              IF durable /\ UsernamesInsertable(storage, UsernameRows(f))
              THEN UpsertUsernames(dbUsernames, UsernameRows(f))
              ELSE dbUsernames
    /\ FlushRaise(p)
    /\ UNCHANGED <<poolVars, uow, dbUpdateState, otherUsernames, dbPeers, written>>

\* The last call of p returned from a flush that had written whatever was
\* pending: a save(), or an update whose flush reset the counters.
FlushedLast(p) ==
    /\ scall[p].pc = "idle"
    /\ scall[p].res = "ok"
    /\ \/ scall[p].op = "save"
       \/ /\ scall[p].op \in {"update_peers", "update_usernames"}
          /\ storage.operationCount = 0

\* save(): a forced flush (twice: it follows a flush with no call in between)
StSave(p) ==
    /\ scall[p].pc = "idle"
    /\ FlushEnter(p, [SIdle EXCEPT !.op = "save", !.force = TRUE,
                                   !.twice = FlushedLast(p)], storage)
    /\ UNCHANGED <<poolVars, uow, dbUpdateState, otherUsernames, dbPeers, dbUsernames, written, failed>>

\* --------------------------------------------------------- update_peers
\* The cache keeps what it holds.
KeepPeerCache(cache, obj) == cache

\* "self._peer_cache[peer_id] = peer_obj"
SetPeerCache(cache, obj) == [cache EXCEPT ![obj.id] = obj]

\* "for peer in peers": the cache, the phone cache and the buffer take each
\* peer in turn.
RECURSIVE ApplyPeers(_, _, _)
ApplyPeers(self, batch, t) ==
    IF batch = <<>> THEN self
    ELSE LET obj == PeerObj(Head(batch), t) IN
         ApplyPeers(
             [self EXCEPT
                 !.peerCache = SetPeerCache(@, obj),
                 !.phoneCache = IF obj.phone_number # ""
                                THEN [@ EXCEPT ![obj.phone_number] = obj.id]
                                ELSE @,
                 !.pendingPeers = [@ EXCEPT ![obj.id] = obj]],
             Tail(batch), t)

\* The history of the peers given to update_peers.
RECURSIVE ApplyWritten(_, _, _)
ApplyWritten(w, batch, t) ==
    IF batch = <<>> THEN w
    ELSE LET obj == PeerObj(Head(batch), t) IN
         ApplyWritten([w EXCEPT ![obj.id] = [cur |-> obj,
                                             prev |-> @.cur.access_hash]],
                      Tail(batch), t)

\* Inside "async with self._batch_lock" (no await), then the flush check.
UpdatePeersLocked(p, c) ==
    /\ written' = ApplyWritten(written, c.batch, now)
    /\ failed' = Touch(failed)
    /\ FlushEnter(p, [c EXCEPT !.batch = <<>>],
                  [ApplyPeers(storage, c.batch, now)
                      EXCEPT !.operationCount = @ + 1])

StUpdatePeers(p, batch) ==
    /\ scall[p].pc = "idle"
    /\ storage.operationCount < MaxOps
    /\ LET c == [SIdle EXCEPT !.op = "update_peers", !.batch = batch] IN
       IF batch = <<>>
       THEN /\ scall' = [scall EXCEPT ![p] = SFinish(c, "ok", NoAddr)]
            /\ UNCHANGED <<storage, batchLock, written, failed>>
       ELSE IF BatchLockBusy
       THEN /\ scall' = [scall EXCEPT ![p] = [c EXCEPT !.pc = "up_wait"]]
            /\ UNCHANGED <<storage, batchLock, written, failed>>
       ELSE UpdatePeersLocked(p, c)
    /\ UNCHANGED <<poolVars, uow, dbUpdateState, otherUsernames, dbPeers, dbUsernames>>

StUpdatePeersAcquire(p) ==
    /\ scall[p].pc = "up_wait"
    /\ batchLock = NoProc
    /\ UpdatePeersLocked(p, scall[p])
    /\ UNCHANGED <<poolVars, uow, dbUpdateState, otherUsernames, dbPeers, dbUsernames>>

\* ----------------------------------------------------- update_usernames
\* One (peer_id, username_list) pair: the cache maps each lowered username to
\* the peer, and the peer's queued set takes the usernames as given.
UpdateUsernamesLocked(p, c) ==
    /\ failed' = Touch(failed)
    /\ FlushEnter(p, c,
        [storage EXCEPT
            !.usernameCache = [u \in LowerNames |->
                                  IF \E n \in c.names : Lower(n) = u
                                  THEN c.id ELSE @[u]],
            !.pendingUsernames[c.id] = [queued |-> TRUE,
                                        names |-> @.names \cup c.names],
            !.operationCount = @ + 1])

StUpdateUsernames(p, i, names) ==
    /\ scall[p].pc = "idle"
    /\ storage.operationCount < MaxOps
    /\ LET c == [SIdle EXCEPT !.op = "update_usernames", !.id = i,
                              !.names = names]
       IN IF BatchLockBusy
          THEN /\ scall' = [scall EXCEPT ![p] = [c EXCEPT !.pc = "un_wait"]]
               /\ UNCHANGED <<storage, batchLock, failed>>
          ELSE UpdateUsernamesLocked(p, c)
    /\ UNCHANGED <<poolVars, uow, dbUpdateState, otherUsernames, dbPeers, dbUsernames, written>>

StUpdateUsernamesAcquire(p) ==
    /\ scall[p].pc = "un_wait"
    /\ batchLock = NoProc
    /\ UpdateUsernamesLocked(p, scall[p])
    /\ UNCHANGED <<poolVars, uow, dbUpdateState, otherUsernames, dbPeers, dbUsernames, written>>

\* ------------------------------------------------------- get_peer_by_id
AddrResult(c, peer) ==
    LET a == GetInputPeer(peer.id, peer.access_hash, peer.type) IN
    SFinish(c, IF a.kind = "ValueError" THEN "value_error" ELSE "ok", a)

\* A cached peer is answered at once; otherwise the store is asked.
StGetPeerById(p, i) ==
    /\ scall[p].pc = "idle"
    /\ LET c == [SIdle EXCEPT !.op = "get_peer_by_id", !.id = i] IN
       IF storage.peerCache[i] # NoPeer
       THEN scall' = [scall EXCEPT ![p] = AddrResult(c, storage.peerCache[i])]
       ELSE scall' = [scall EXCEPT ![p] = [c EXCEPT !.pc = "get_db"]]
    /\ UNCHANGED <<poolVars, uow, dbUpdateState, otherUsernames, storage, batchLock, dbPeers, dbUsernames,
                   written, failed>>

\* "async with self._batch_lock: self._peer_cache[peer_id] = peer", then the
\* address is returned.
GetCached(p, c, row) ==
    /\ storage' = [storage EXCEPT !.peerCache[c.id] = row]
    /\ scall' = [scall EXCEPT ![p] = AddrResult(c, row)]

\* TelegramPeers.get_by_id returned: KeyError without a row; with a row the
\* lock is taken, at once if it is free.
StGetPeerDb(p) ==
    /\ scall[p].pc = "get_db"
    /\ LET c == scall[p]
           rows == {r \in dbPeers : r.id = c.id}
       IN IF rows = {}
          THEN /\ scall' = [scall EXCEPT ![p] = SFinish(c, "key_error", NoAddr)]
               /\ UNCHANGED storage
          ELSE \E row \in rows :
                  IF BatchLockBusy
                  THEN /\ scall' = [scall EXCEPT ![p] =
                              [c EXCEPT !.pc = "get_wait", !.row = row]]
                       /\ UNCHANGED storage
                  ELSE GetCached(p, c, row)
    /\ UNCHANGED <<poolVars, uow, dbUpdateState, otherUsernames, batchLock, dbPeers, dbUsernames, written, failed>>

StGetPeerAcquire(p) ==
    /\ scall[p].pc = "get_wait"
    /\ batchLock = NoProc
    /\ GetCached(p, scall[p], scall[p].row)
    /\ UNCHANGED <<poolVars, uow, dbUpdateState, otherUsernames, batchLock, dbPeers, dbUsernames, written, failed>>

\* ------------------------------------------------- get_peer_by_username
\* abs(time.time() - peer.last_update_on) <= self.USERNAMES_TTL
AlwaysFresh(peer, t) == TRUE

Fresh(peer, t) ==
    (IF t >= peer.last_update_on
     THEN t - peer.last_update_on
     ELSE peer.last_update_on - t) <= UsernamesTtl

\* The owner's peers joined to the username rows of the same id and this
\* very spelling, the latest updated first, limit 1 (any of them among
\* equals).
JoinByUsername(usernames, username) ==
    LET rows == {r \in dbPeers :
                    \E u \in usernames : u.id = r.id /\ u.username = username}
    IN {r \in rows : \A q \in rows : q.last_update_on <= r.last_update_on}

\* TelegramPeers.get_by_username: the join is on the id alone, and only the
\* peers are filtered by owner_id, so the username rows of every owner join.
GetByUsername(username) ==
    JoinByUsername(dbUsernames \cup otherUsernames, username)

\* The storage of another owner writes a username row of its own for a peer
\* id of its own.
OtherFlushUsernames(i, username) ==
    /\ otherUsernames' = otherUsernames \cup {[id |-> i, username |-> username]}
    /\ UNCHANGED <<poolVars, uow, dbUpdateState, storage, batchLock, dbPeers,
                   dbUsernames, scall, written, failed>>

\* The call returns: what it looked up, the row it used and when it compared
\* the row's age are kept.
NameResult(c, res, row, t) ==
    [(IF res = "ok" THEN AddrResult([c EXCEPT !.id = row.id], row)
                    ELSE SFinish(c, res, NoAddr))
        EXCEPT !.name = c.name, !.row = row, !.at = t]

\* A username cached for a cached peer that is within the TTL is answered at
\* once; in every other case the store is asked.
StGetPeerByUsername(p, username) ==
    /\ scall[p].pc = "idle"
    /\ LET c == [SIdle EXCEPT !.op = "get_peer_by_username", !.name = username]
           i == storage.usernameCache[Lower(username)]
       IN IF /\ i # 0
             /\ storage.peerCache[i] # NoPeer
             /\ Fresh(storage.peerCache[i], now)
          THEN scall' = [scall EXCEPT ![p] =
                            NameResult(c, "ok", storage.peerCache[i], now)]
          ELSE scall' = [scall EXCEPT ![p] = [c EXCEPT !.pc = "name_db"]]
    /\ UNCHANGED <<poolVars, uow, dbUpdateState, otherUsernames, storage, batchLock, dbPeers, dbUsernames,
                   written, failed>>

\* "async with self._batch_lock": the row and the username are cached, then
\* the address is returned.
NameCached(p, c, row, t) ==
    /\ storage' = [storage EXCEPT !.peerCache[row.id] = row,
                                  !.usernameCache[Lower(c.name)] = row.id]
    /\ scall' = [scall EXCEPT ![p] = NameResult(c, "ok", row, t)]

\* TelegramPeers.get_by_username returned: KeyError without a row and for a
\* row older than the TTL; else the lock is taken, at once if it is free.
StGetPeerByUsernameDb(p) ==
    /\ scall[p].pc = "name_db"
    /\ LET c == scall[p]
           rows == GetByUsername(c.name)
       IN IF rows = {}
          THEN /\ scall' = [scall EXCEPT ![p] =
                               NameResult(c, "not_found", NoPeer, now)]
               /\ UNCHANGED storage
          ELSE \E row \in rows :
                  IF ~Fresh(row, now)
                  THEN /\ scall' = [scall EXCEPT ![p] =
                                       NameResult(c, "expired", row, now)]
                       /\ UNCHANGED storage
                  ELSE IF BatchLockBusy
                  THEN /\ scall' = [scall EXCEPT ![p] =
                              [c EXCEPT !.pc = "name_wait", !.row = row,
                                        !.at = now]]
                       /\ UNCHANGED storage
                  ELSE NameCached(p, c, row, now)
    /\ UNCHANGED <<poolVars, uow, dbUpdateState, otherUsernames, batchLock, dbPeers, dbUsernames, written, failed>>

StGetPeerByUsernameAcquire(p) ==
    /\ scall[p].pc = "name_wait"
    /\ batchLock = NoProc
    /\ NameCached(p, scall[p], scall[p].row, scall[p].at)
    /\ UNCHANGED <<poolVars, uow, dbUpdateState, otherUsernames, batchLock, dbPeers, dbUsernames, written, failed>>

\* ---------------------------------------------------------- update_state
StateIds == 1..NumStateIds

StateValues ==
    {[id |-> i, pts |-> v, qts |-> v, date |-> v, seq |-> v] :
        i \in StateIds, v \in 1..NumStateVals}

UpdateStateArgs ==
    {NoValue}
        \cup {[kind |-> "int", id |-> i, state |-> NoState] : i \in StateIds}
        \cup {[kind |-> "state", id |-> 0, state |-> v] : v \in StateValues}

\* TelegramUpdateState.fetch_all: the rows of the owner
FetchAll(rows) == rows

\* TelegramUpdateState.delete: delete ... where owner_id = :o and id = :value
StateDelete(rows, i) == {r \in rows : r.id # i}

\* The primary key (owner_id, id) and the foreign key of the owner.
StateInsertable(rows, v) ==
    /\ telegramSessions[storage.telegram_id] > 0
    /\ \A r \in rows : r.id # v.id

\* TelegramUpdateState.replace: insert into telegram_update_state values (...)
StateReplace(rows, v) == rows \cup {v}

\* "async with self.database_instance.session() as session" is entered.
StUpdateState(p, value) ==
    /\ scall[p].pc = "idle"
    /\ scall' = [scall EXCEPT ![p] = [SIdle EXCEPT !.op = "update_state",
                                                   !.value = value,
                                                   !.pc = "state_db"]]
    /\ UNCHANGED <<poolVars, uow, dbUpdateState, otherUsernames, storage, batchLock, dbPeers,
                   dbUsernames, written, failed>>

\* What the call returns: its argument and the rows it fetched are kept.
StateResult(c, res, rows) ==
    [SFinish(c, res, NoAddr) EXCEPT !.value = c.value, !.rows = rows]

\* The statement is executed and the session commits, or the statement
\* raises, the session rolls back and the exception leaves the call.
StUpdateStateDb(p) ==
    /\ scall[p].pc = "state_db"
    /\ LET c == scall[p]
           v == c.value
       IN IF v.kind = "object"
          THEN /\ scall' = [scall EXCEPT ![p] =
                               StateResult(c, "ok", FetchAll(dbUpdateState))]
               /\ UNCHANGED dbUpdateState
          ELSE IF v.kind = "int"
          THEN /\ dbUpdateState' = StateDelete(dbUpdateState, v.id)
               /\ scall' = [scall EXCEPT ![p] = StateResult(c, "ok", {})]
          ELSE IF StateInsertable(dbUpdateState, v.state)
          THEN /\ dbUpdateState' = StateReplace(dbUpdateState, v.state)
               /\ scall' = [scall EXCEPT ![p] = StateResult(c, "ok", {})]
          ELSE /\ scall' = [scall EXCEPT ![p] =
                               StateResult(c, "integrity_error", {})]
               /\ UNCHANGED dbUpdateState
    /\ UNCHANGED <<poolVars, uow, otherUsernames, storage, batchLock, dbPeers,
                   dbUsernames, written, failed>>

\* ------------------------------------------------------- specifications
\* Credentials are stored for the owners 1, 2, ... in this order: which owners
\* have a row matters, not the order in which the rows came.
CreateNext(o) ==
    /\ \A x \in 1..(o - 1) : telegramSessions[x] > 0
    /\ StorageCreate(o)

\* Concurrent get_or_create_session calls; owner 1 has a credential row.
GocOwners == 1..2

InitGoc == InitPool(SeqCap, SweepTtl, GocSids, 0, 1) /\ InitStorage

NextGoc ==
    \/ \E p \in Procs, o \in GocOwners : GocCall(p, o)
    \/ \E p \in Procs : GocAcquire(p)
    \/ \E p \in Procs : GocLoad(p)
    \/ \E p \in Procs : GocCreate(p)
    \/ \E p \in Procs : GocStartOk(p)
    \/ \E p \in Procs : GocStartFail(p)

SpecGoc == InitGoc /\ [][NextGoc]_vars

\* Sequential runs of the pool's operations: one caller, no cleanup task.
SeqOwners == 1..3

InitSeq == InitPool(SeqCap, SweepTtl, SeqSids, SeqTime, 0) /\ InitStorage

NextSeq ==
    \/ Tick
    \/ \E o \in SeqOwners : CreateNext(o)
    \/ \E o \in SeqOwners : GocCall(1, o)
    \/ GocLoad(1)
    \/ GocCreate(1)
    \/ GocStartOk(1)
    \/ GocStartFail(1)
    \/ \E o \in SeqOwners : CnCall(1, o)
    \/ CnCreate(1)
    \/ CnOnboardSelect(1)
    \/ CnOnboardInsert(1)
    \/ CnEvicted(1)
    \/ CnStartOk(1)
    \/ CnStartFail(1)
    \/ \E o \in SeqOwners : ExtendTtl(1, o)
    \/ \E o \in SeqOwners : StopCall(1, o)
    \/ StopStopped(1)

SpecSeq == InitSeq /\ [][NextSeq]_vars

\* Sequential inserts and accesses at a capacity of LruCap; every owner has a
\* credential row.
InitLru == InitPool(LruCap, SweepTtl, LruSids, LruTime, NumOwners) /\ InitStorage

NextLru ==
    \/ Tick
    \/ \E o \in Owners : GocCall(1, o)
    \/ GocLoad(1)
    \/ GocCreate(1)
    \/ GocStartOk(1)
    \/ \E o \in Owners : CnCall(1, o)
    \/ CnCreate(1)
    \/ CnOnboardSelect(1)
    \/ CnOnboardInsert(1)
    \/ CnEvicted(1)
    \/ CnStartOk(1)
    \/ \E o \in Owners : ExtendTtl(1, o)

SpecLru == InitLru /\ [][NextLru]_vars

\* Sequential runs of the peer operations of one storage whose owner has a
\* credential row; peer 1 is a user, with or without a phone number, and the
\* other peers are groups or channels.
PeerInputs ==
    {t \in PeerTuples : t[3] = "user" <=> t[1] = 1}

InitPeers == InitPool(SeqCap, SweepTtl, 0, 0, 1) /\ InitStorage

NextPeers ==
    \/ \E batch \in Batches(PeerInputs) : StUpdatePeers(1, batch)
    \/ StSave(1)
    \/ \E i \in PeerIds : StGetPeerById(1, i)
    \/ StGetPeerDb(1)
    \/ StFlushPeersOk(1)
    \/ \E durable \in BOOLEAN : StFlushPeersFail(1, durable)

SpecPeers == InitPeers /\ [][NextPeers]_vars

\* Sequential runs of the peer and username operations of one storage while
\* time passes; every peer is a user with one access hash and no phone
\* number, and usernames come for peer 1.
NameInputs == {t \in PeerTuples : t[2] = 1 /\ t[3] = "user" /\ t[4] = ""}

InitNames == InitPool(SeqCap, SweepTtl, 0, StoreTime, 1) /\ InitStorage

NextNames ==
    \/ Tick
    \/ \E batch \in Batches(NameInputs) : StUpdatePeers(1, batch)
    \/ \E names \in SUBSET Usernames : StUpdateUsernames(1, 1, names)
    \/ StSave(1)
    \/ StFlushPeersOk(1)
    \/ \E durable \in BOOLEAN : StFlushPeersFail(1, durable)
    \/ StFlushUsernamesOk(1)
    \/ \E durable \in BOOLEAN : StFlushUsernamesFail(1, durable)

SpecNames == InitNames /\ [][NextNames]_vars

\* The cleanup task beside one caller that creates, accesses and extends
\* sessions.
SweepOwners == 1..2

InitSweep == InitPool(SeqCap, SweepTtl, SweepSids, SweepTime, 2) /\ InitStorage

NextSweep ==
    \/ Tick
    \/ \E o \in SweepOwners : GocCall(1, o)
    \/ GocLoad(1)
    \/ GocCreate(1)
    \/ GocStartOk(1)
    \/ GocStartFail(1)
    \/ \E o \in SweepOwners : ExtendTtl(1, o)
    \/ SweepBegin
    \/ SweepStopped

SpecSweep == InitSweep /\ [][NextSweep]_vars

\* ------------------------------------------------- properties of the pool
\* The calls that hold an owner's lock on the miss path of
\* get_or_create_session.
PastLock(o) ==
    {p \in Procs : /\ call[p].owner = o
                   /\ call[p].pc \in {"goc_load", "goc_create", "goc_start"}}

Returned(p, op) == call[p].pc = "idle" /\ call[p].op = op

\* C1: concurrent get_or_create_session calls for one owner with a stored
\* credential construct and start one session, and every caller receives
\* that instance: at most one call per owner is past the lock, none once the
\* owner is resident; every instance whose start() returned is the resident
\* instance of an owner; every other constructed instance is one whose
\* start() raised or is still awaited by the one call past the lock; and
\* every call that returned a session returned the resident, started one.
C1_OneSessionForAll ==
    /\ \A o \in Owners :
          /\ Cardinality(PastLock(o)) <= 1
          /\ Resident(o) => PastLock(o) = {}
    /\ \A s \in 1..(nextSid - 1) :
          /\ started[s] = "yes" => \E o \in Owners : sessionOf[o] = s
          /\ started[s] = "no" =>
                \E p \in Procs : call[p].pc = "goc_start" /\ call[p].sid = s
    /\ \A p \in Procs :
          Returned(p, "goc") /\ call[p].res = "ok" =>
              /\ call[p].rsid = sessionOf[call[p].owner]
              /\ started[call[p].rsid] = "yes"

\* Every caller has received the one instance, all but one after waiting for
\* the owner's lock, and no start() raised.
C1_Witness ==
    /\ nextSid = 2
    /\ \A p \in Procs :
          /\ Returned(p, "goc")
          /\ call[p].res = "ok"
          /\ call[p].rsid = 1
    /\ Cardinality({p \in Procs : call[p].waited}) = NumProcs - 1

\* C2: after every completed operation of a sequential run the number of
\* resident sessions is at most max_sessions.
C2_AtMostMaxSessions ==
    call[1].pc = "idle" => Len(sessions) <= maxSessions

\* C3: when create_new_session for an owner that is not resident evicts at
\* capacity, the victim's last access is no later than that of any session
\* that stays.
C3_VictimIsLeastRecent ==
    \A p \in Procs :
        call[p].pc = "cn_evict" /\ LaHas(lastAccess, call[p].victim) =>
            \A o \in Range(sessions) :
                LaHas(lastAccess, o) =>
                    LaGet(lastAccess, call[p].victim) <= LaGet(lastAccess, o)

\* C4: the sweep never removes a session whose last access, at the moment of
\* its removal, is within session_ttl.
C4_SweepSparesFresh ==
    sweep.pc = "stop" => ~sweep.vfresh

\* C5: a session that was resident and past its TTL when a pass listed the
\* expired owners, and was not touched since, is no longer resident when the
\* pass has ended.
C5_SweepRemovesStale ==
    sweep.pc = "idle" =>
        \A e \in sweep.stale :
            sessionOf[e[1]] = e[2] => ~Expired(sweep.now, touched[e[1]])

C10_OneCredentialRow ==
    \A p \in Procs :
        Returned(p, "cn") =>
            /\ call[p].res = "ok" => telegramSessions[call[p].owner] = 1
            /\ call[p].again => call[p].res # "integrity_error"

\* -------------------------------------------- properties of the storage
SReturned(p, op) == scall[p].pc = "idle" /\ scall[p].op = op

\* C6: once update_peers was given a peer, get_peer_by_id for it returns the
\* address built from the id, access_hash and type given last, flushed or
\* not.
C6_ReadYourWrites ==
    \A p \in StoreProcs :
        SReturned(p, "get_peer_by_id") /\ written[scall[p].id].cur # NoPeer =>
            LET w == written[scall[p].id].cur IN
            /\ scall[p].res = "ok"
            /\ scall[p].addr = GetInputPeer(w.id, w.access_hash, w.type)

\* A channel given to update_peers a second time with another access hash is
\* resolved while it is still queued and nothing has been stored.
C6_Witness ==
    \E p \in StoreProcs :
        /\ SReturned(p, "get_peer_by_id")
        /\ scall[p].addr.kind = "InputPeerChannel"
        /\ scall[p].addr.channel_id = GetChannelId(scall[p].id)
        /\ scall[p].addr.access_hash = written[scall[p].id].cur.access_hash
        /\ written[scall[p].id].prev \notin {0, scall[p].addr.access_hash}
        /\ scall[p].id \in PendingPeerIds(storage)
        /\ dbPeers = {}

\* C7: a flush whose write raises leaves both buffers as they were, and the
\* next write that succeeds, with the buffers still as the failure left
\* them, stores every entry of its buffer.
C7_FailedFlushIsRetried ==
    [][\A p \in StoreProcs :
          LET c == scall[p] IN
          /\ c.pc \in {"flush_peers", "flush_usernames"}
             /\ scall'[p].res = "db_error"
             => /\ storage'.pendingPeers = storage.pendingPeers
                /\ storage'.pendingUsernames = storage.pendingUsernames
          /\ failed = "intact" /\ c.pc = "flush_peers"
             /\ scall'[p] # c /\ scall'[p].res # "db_error"
             => \A i \in PendingPeerIds(storage) :
                    storage.pendingPeers[i] \in dbPeers'
          /\ failed = "intact" /\ c.pc = "flush_usernames"
             /\ scall'[p] # c /\ scall'[p].res # "db_error"
             => \A i \in PeerIds :
                    \A u \in storage.pendingUsernames[i].names :
                        [id |-> i, username |-> u] \in dbUsernames']_vars

\* C8: the store holds at most one row for a peer id, and for a peer that
\* was given to update_peers and is no longer queued that row is the peer
\* given last.
C8_OneRowLatestHash ==
    \A i \in PeerIds :
        LET rows == {r \in dbPeers : r.id = i} IN
        /\ Cardinality(rows) <= 1
        /\ written[i].cur # NoPeer /\ storage.pendingPeers[i] = NoPeer =>
               rows = {written[i].cur}

\* A peer was given twice with different access hashes and flushed: its one
\* row holds the second.
C8_Witness ==
    \E i \in PeerIds :
        /\ written[i].prev \notin {0, written[i].cur.access_hash}
        /\ storage.pendingPeers[i] = NoPeer
        /\ {r \in dbPeers : r.id = i} = {written[i].cur}

\* ------------------------------------------- one caller, calls remembered
\* One caller makes up to HistLen calls, one after the other, on a pool of
\* capacity SeqCap; every owner has a credential row.
HistLen == 4
HistSids == 4
HistOwners == 1..3

InitHist == InitPoolH(SeqCap, SweepTtl, HistSids, 0, 3, HistLen) /\ InitStorage

MoreCalls == Len(call[1].hist) < bound.hist

NextHist ==
    \/ \E o \in HistOwners : MoreCalls /\ GocCall(1, o)
    \/ GocLoad(1)
    \/ GocCreate(1)
    \/ GocStartOk(1)
    \/ GocStartFail(1)
    \/ \E o \in HistOwners : MoreCalls /\ CnCall(1, o)
    \/ CnCreate(1)
    \/ CnOnboardSelect(1)
    \/ CnOnboardInsert(1)
    \/ CnEvicted(1)
    \/ CnStartOk(1)
    \/ CnStartFail(1)
    \/ \E o \in HistOwners : MoreCalls /\ ExtendTtl(1, o)
    \/ \E o \in HistOwners : MoreCalls /\ StopCall(1, o)
    \/ StopStopped(1)

SpecHist == InitHist /\ [][NextHist]_vars

\* The caller's completed calls so far, when it is between calls.
Hist == call[1].hist

Between == call[1].pc = "idle"

\* The caller's first three calls were create_new_session for the owners
\* 1, 2 and 3, and each returned a session.
CreatedOneTwoThree ==
    /\ Len(Hist) >= 3
    /\ \A i \in 1..3 : /\ Hist[i][1] = "cn"
                       /\ Hist[i][2] = i
                       /\ Hist[i][3] = "ok"

\* C11: at capacity 2, after create_new_session for the owners 1, 2, 3 in
\* that order and nothing else, owner 1 is not resident (its instance was
\* stopped) and 2 and 3 are resident; a get_or_create_session(1) that follows
\* is not answered from the cache and never fails for a missing credential:
\* when start() succeeds it returns a newly constructed, started instance that
\* is not the evicted one, and owner 1 is resident with it.
C11_EvictedIsRebuilt ==
    (Between /\ maxSessions = 2 /\ CreatedOneTwoThree) =>
        /\ Len(Hist) = 3 =>
              /\ sessions = <<2, 3>>
              /\ sessionOf[1] = NoSid
              /\ sessionOf[2] = Hist[2][4]
              /\ sessionOf[3] = Hist[3][4]
              /\ stops[Hist[1][4]] = 1
        /\ (Len(Hist) = 4 /\ Hist[4][1] = "goc" /\ Hist[4][2] = 1) =>
              /\ Hist[4][3] \in {"ok", "start_failed"}
              /\ Hist[4][3] = "ok" =>
                    /\ Hist[4][4] \notin {Hist[1][4], Hist[2][4], Hist[3][4]}
                    /\ started[Hist[4][4]] = "yes"
                    /\ stops[Hist[4][4]] = 0
                    /\ sessionOf[1] = Hist[4][4]

C11_Witness ==
    /\ Between
    /\ CreatedOneTwoThree
    /\ Len(Hist) = 4
    /\ Hist[4] = <<"goc", 1, "ok", 4>>
    /\ stops[Hist[1][4]] = 1

\* ------------------------------------------- usernames resolved over time
\* Sequential runs of one storage while time passes beyond the TTL: peers
\* and their usernames are recorded one at a time, saved and looked up by
\* name, in the recorded spelling or in lower case.
LookupNames == Usernames \cup LowerNames

InitResolve == InitPool(SeqCap, SweepTtl, 0, ResolveTime, 1) /\ InitStorage

NextResolve ==
    \/ Tick
    \/ \E t \in NameInputs : StUpdatePeers(1, <<t>>)
    \/ \E i \in PeerIds, n \in Usernames : StUpdateUsernames(1, i, {n})
    \/ StSave(1)
    \/ StFlushPeersOk(1)
    \/ StFlushUsernamesOk(1)
    \/ \E n \in LookupNames : StGetPeerByUsername(1, n)
    \/ StGetPeerByUsernameDb(1)

SpecResolve == InitResolve /\ [][NextResolve]_vars

\* The store holds a username row of this spelling for some peer.
StoredName(username) ==
    \E r \in dbPeers : \E u \in dbUsernames : u.id = r.id /\ u.username = username

\* C12: get_peer_by_username returns a peer only when, at the comparison,
\* the peer it returns was updated no more than USERNAMES_TTL ago, whether
\* it answers from the cache or from the store; and when the store is asked
\* for a username whose latest stored peer is older than the TTL, the call
\* fails with "Username expired" although the rows are there.
C12_OnlyFreshNamesResolve ==
    [][\A p \in StoreProcs :
          LET c == scall'[p] IN
          (c # scall[p] /\ c.pc = "idle" /\ c.op = "get_peer_by_username") =>
              /\ c.res \in {"ok", "value_error"} =>
                    /\ c.row # NoPeer
                    /\ c.at - c.row.last_update_on <= UsernamesTtl
                    /\ c.at - c.row.last_update_on >= 0
              /\ (/\ scall[p].pc = "name_db"
                  /\ StoredName(c.name)
                  /\ \A r \in GetByUsername(c.name) :
                        now - r.last_update_on > UsernamesTtl)
                 => c.res = "expired"]_vars

C12_Witness ==
    LET c == scall[1] IN
    /\ c.pc = "idle"
    /\ c.op = "get_peer_by_username"
    /\ c.res = "expired"
    /\ c.at - c.row.last_update_on = UsernamesTtl + 1
    /\ c.row \in dbPeers
    /\ \E u \in dbUsernames : u.id = c.row.id /\ u.username = c.name

\* ------------------------------------------------------ replace by peer
\* The lowered usernames that the cache resolves to peer i, and the usernames
\* stored for peer i.
CachedNamesOf(i) == {u \in LowerNames : storage.usernameCache[u] = i}

StoredNamesOf(i) == {r.username : r \in {x \in dbUsernames : x.id = i}}

\* C13: when update_usernames has returned for (p, U), the usernames that the
\* cache resolves to p are exactly those of U, and once the buffer of p has
\* been written the usernames stored for p are exactly U.
C13_ReplaceByPeer ==
    \A p \in StoreProcs :
        LET c == scall[p] IN
        (c.pc = "idle" /\ c.op = "update_usernames" /\ c.res = "ok") =>
            /\ CachedNamesOf(c.id) = {Lower(n) : n \in c.names}
            /\ storage.pendingUsernames[c.id] = NoNames =>
                  StoredNamesOf(c.id) = c.names

\* ------------------------------------------------------------- save()
\* C14: when save() returns without raising, both buffers are empty, the
\* latest value of every peer given to update_peers is stored, and every
\* username that was queued and still resolves to its peer is stored for
\* that peer.
C14_SaveStoresEverything ==
    [][\A p \in StoreProcs :
          LET c == scall'[p] IN
          (c # scall[p] /\ c.pc = "idle" /\ c.op = "save" /\ c.res = "ok") =>
              /\ PendingPeerIds(storage') = {}
              /\ QueuedUsernameIds(storage') = {}
              /\ \A i \in PeerIds :
                    written[i] # NotWritten => written[i].cur \in dbPeers'
              /\ \A i \in PeerIds :
                    \A n \in storage.pendingUsernames[i].names :
                        storage.usernameCache[Lower(n)] = i =>
                            [id |-> i, username |-> n] \in dbUsernames']_vars

\* ------------------------------------------------------------ shutdown
\* One caller of get_or_create_session and stop_all_sessions beside the
\* cleanup task, while time passes beyond the TTL; every owner has a
\* credential row.
ShutSids == 4
ShutTime == 2

InitShut == InitPool(SeqCap, SweepTtl, ShutSids, ShutTime, 3) /\ InitStorage

NextShut ==
    \/ Tick
    \/ \E o \in HistOwners : GocCall(1, o)
    \/ GocLoad(1)
    \/ GocCreate(1)
    \/ GocStartOk(1)
    \/ GocStartFail(1)
    \/ StopAllCall(1)
    \/ \E raised \in BOOLEAN : StopAllStopped(1, raised)
    \/ SweepBegin
    \/ SweepStopped
    \/ SweepCancelled

SpecShut == InitShut /\ [][NextShut]_vars

\* C15: when stop_all_sessions has returned it has not raised, stop() has
\* been invoked on every instance that was resident when it was called, also
\* on those after one whose stop() raised, and none of those instances is in
\* the registry; an owner of one of them has a recency entry only for a
\* session made resident since.
C15_StopAllStopsAll ==
    \A p \in Procs :
        LET c == call[p] IN
        (c.pc = "idle" /\ c.op = "stop_all") =>
            /\ c.res = "ok"
            /\ \A e \in c.snap :
                  /\ stops[e[2]] = 1
                  /\ sessionOf[e[1]] # e[2]
                  /\ LaHas(lastAccess, e[1]) => Resident(e[1])

C15_Witness ==
    LET c == call[1] IN
    /\ c.pc = "idle"
    /\ c.op = "stop_all"
    /\ c.res = "ok"
    /\ Cardinality(c.snap) >= 2
    /\ c.raised = {e[2] : e \in c.snap}
    /\ \A e \in c.snap : stops[e[2]] = 1 /\ ~Resident(e[1])
    /\ lastAccess = <<>>

\* ------------------------------------------------------------ bulk load
\* One caller of get_or_create_session and load_all_sessions; two of the
\* three owners have a credential row.
LoadSids == 5

InitLoad == InitPool(SeqCap, SweepTtl, LoadSids, 0, 2) /\ InitStorage

NextLoad ==
    \/ \E o \in HistOwners : GocCall(1, o)
    \/ GocLoad(1)
    \/ GocCreate(1)
    \/ GocStartOk(1)
    \/ GocStartFail(1)
    \/ LoadCall(1)
    \/ LoadRows(1)
    \/ \E ok \in BOOLEAN : LoadCreate(1, ok)
    \/ \E fail \in SUBSET Sids : LoadStarted(1, fail)

SpecLoad == InitLoad /\ [][NextLoad]_vars

\* C16: when load_all_sessions has returned it has not raised, and of the
\* instances it constructed exactly those whose start() returned are
\* resident: an owner whose start() raised is not resident with the failed
\* instance, and the failure keeps no other instance from being cached.
C16_LoadCachesStarted ==
    \A p \in Procs :
        LET c == call[p] IN
        (c.pc = "idle" /\ c.op = "load_all") =>
            /\ c.res = "ok"
            /\ \A i \in 1..Len(c.users) :
                  sessionOf[c.users[i][1]] = c.users[i][2]
                      <=> c.users[i][2] \notin c.raised

\* --------------------------------------------------------- stop_session
\* One caller of get_or_create_session, stop_session and stop_all_sessions
\* beside the cleanup task, while time passes beyond the TTL; the owners 1
\* and 2 have a credential row.
StopSids == 3

InitStop == InitPool(SeqCap, SweepTtl, StopSids, ShutTime, 2) /\ InitStorage

NextStop ==
    \/ Tick
    \/ \E o \in GocOwners : GocCall(1, o)
    \/ GocLoad(1)
    \/ GocCreate(1)
    \/ GocStartOk(1)
    \/ GocStartFail(1)
    \/ \E o \in GocOwners : StopCall(1, o)
    \/ StopAcquire(1)
    \/ StopStopped(1)
    \/ StopAllCall(1)
    \/ \E raised \in BOOLEAN : StopAllStopped(1, raised)
    \/ SweepBegin
    \/ SweepAcquire
    \/ SweepStopped
    \/ SweepCancelled

SpecStop == InitStop /\ [][NextStop]_vars

\* C17: stop_session(T) for a resident T takes T out of the registry, invokes
\* stop() on its instance once and takes T out of the recency map, and
\* touches no other owner; for a T that is not resident it changes neither
\* the registry nor the recency map and stops nothing.
C17_StopRemovesOnlyResident ==
    [][\A p \in Procs :
          LET c == call[p]
              d == call'[p]
          IN /\ (d.op = "stop" /\ d.pc = "stop_stop" /\ c.pc # "stop_stop") =>
                   /\ Resident(d.owner)
                   /\ d.vsid = sessionOf[d.owner]
                   /\ sessions' = SeqRemove(sessions, d.owner)
                   /\ sessionOf' = [sessionOf EXCEPT ![d.owner] = NoSid]
                   /\ stops' = stops
             /\ (c.pc = "stop_stop" /\ d.pc = "idle") =>
                   /\ stops' = [stops EXCEPT ![c.vsid] = 1]
                   /\ ~LaHas(lastAccess', c.owner)
                   /\ LaDel(lastAccess', c.owner) = LaDel(lastAccess, c.owner)
                   /\ sessions' = sessions
                   /\ sessionOf' = sessionOf
             /\ (d.op = "stop" /\ d.pc = "idle" /\ c.pc \in {"idle", "stop_wait"}
                     /\ d # c) =>
                   /\ ~Resident(d.owner)
                   /\ sessions' = sessions
                   /\ sessionOf' = sessionOf
                   /\ lastAccess' = lastAccess
                   /\ stops' = stops]_vars

\* ---------------------------------------------------- extend_session_ttl
\* C18: extend_session_ttl(T) returns True exactly when T is resident at the
\* call, whether or not T has a credential row; when True, T's last access
\* becomes the current time and T the last key of the registry, and nothing
\* else changes; when False, registry, recency map and lock map are as
\* before; in both cases no instance is constructed, started or stopped and
\* the credential rows are as before.
C18_ExtendOnlyRefreshes ==
    [][\A p \in Procs :
          LET c == call[p]
              d == call'[p]
              o == d.owner
          IN (d.op = "extend" /\ d.pc = "idle" /\ c.pc = "idle" /\ d # c) =>
                /\ d.res = "true" <=> Resident(o)
                /\ d.res \in {"true", "false"}
                /\ d.res = "true" =>
                      /\ LaGet(lastAccess', o) = now
                      /\ LaDel(lastAccess', o) = LaDel(lastAccess, o)
                      /\ sessions'[Len(sessions')] = o
                      /\ SeqRemove(sessions', o) = SeqRemove(sessions, o)
                /\ d.res = "false" =>
                      /\ sessions' = sessions
                      /\ lastAccess' = lastAccess
                /\ sessionOf' = sessionOf
                /\ locks' = locks
                /\ lockHeld' = lockHeld
                /\ nextSid' = nextSid
                /\ started' = started
                /\ stops' = stops
                /\ telegramSessions' = telegramSessions]_vars

C18_Witness ==
    /\ call[1].pc = "idle"
    /\ call[1].op = "extend"
    /\ call[1].res = "true"
    /\ call[1].owner = 1
    /\ sessions = <<2, 1>>
    /\ lastAccess = <<<<1, 1>>, <<2, 0>>>>
    /\ now = 1

\* ------------------------------------------------------------ checkpoints
\* One caller of update_state with every kind of argument; the owner has a
\* credential row.
InitState == InitPool(SeqCap, SweepTtl, 0, 0, 1) /\ InitStorage

NextState ==
    \/ \E value \in UpdateStateArgs : StUpdateState(1, value)
    \/ StUpdateStateDb(1)

SpecState == InitState /\ [][NextState]_vars

\* C19: update_state without an argument returns all rows of the owner and
\* changes none; with an int it deletes the row of that id and no other; with
\* a TelegramUpdateState it succeeds, also when a row of that id exists, and
\* leaves one row of that id, holding the given pts, qts, date and seq, and
\* the other rows as they were.
C19_ThreeWayState ==
    [][\A p \in StoreProcs :
          LET c == scall[p]
              d == scall'[p]
              v == c.value
          IN (c.pc = "state_db" /\ d.pc = "idle") =>
                /\ d.res = "ok"
                /\ v.kind = "object" =>
                      /\ d.rows = dbUpdateState
                      /\ dbUpdateState' = dbUpdateState
                /\ v.kind = "int" =>
                      dbUpdateState' = {r \in dbUpdateState : r.id # v.id}
                /\ v.kind = "state" =>
                      dbUpdateState' =
                          {r \in dbUpdateState : r.id # v.state.id}
                              \cup {v.state}]_vars

\* ------------------------------------------- a start() that raises
\* C20: when start() raises in get_or_create_session(T), T is not resident
\* afterwards, registry, recency map and stop counts are as before, and the
\* lock of T is released; the caller's next get_or_create_session(T) is
\* neither answered from the cache nor kept waiting: it goes on to load the
\* credential and construct an instance again.
C20_StartFailureIsConfined ==
    [][\A p \in Procs :
          LET c == call[p]
              d == call'[p]
          IN /\ (c.pc = "goc_start" /\ d.pc = "idle" /\ d.res = "start_failed") =>
                   /\ sessionOf'[c.owner] = NoSid
                   /\ sessions' = sessions
                   /\ sessionOf' = sessionOf
                   /\ lastAccess' = lastAccess
                   /\ stops' = stops
                   /\ c.lock \in lockHeld
                   /\ lockHeld' = lockHeld \ {c.lock}
             /\ (/\ c.pc = "idle" /\ c.op = "goc" /\ c.res = "start_failed"
                 /\ d.pc # "idle" /\ d.op = "goc" /\ d.owner = c.owner) =>
                   /\ d.pc = "goc_load"
                   /\ d.lock \in lockHeld']_vars

C20_Witness ==
    /\ Between
    /\ Len(Hist) >= 2
    /\ Hist[1] = <<"goc", 1, "start_failed", NoSid>>
    /\ Hist[2] = <<"goc", 1, "ok", 2>>
    /\ started[1] = "raised"
    /\ started[2] = "yes"
    /\ sessionOf[1] = 2
    /\ lockHeld = {}

\* ------------------------------------------------------ tenant isolation
\* One caller of the storage of owner 1 records peers and usernames, saves
\* and looks usernames up, while the storages of other owners write username
\* rows of their own.
InitTenants == InitPool(SeqCap, SweepTtl, 0, 0, 1) /\ InitStorage

NextTenants ==
    \/ \E t \in NameInputs : StUpdatePeers(1, <<t>>)
    \/ \E i \in PeerIds, n \in Usernames : StUpdateUsernames(1, i, {n})
    \/ StSave(1)
    \/ StFlushPeersOk(1)
    \/ StFlushUsernamesOk(1)
    \/ \E n \in Usernames : StGetPeerByUsername(1, n)
    \/ StGetPeerByUsernameDb(1)
    \/ \E i \in PeerIds, n \in Usernames : OtherFlushUsernames(i, n)

SpecTenants == InitTenants /\ [][NextTenants]_vars

\* C21: what get_peer_by_username finds in the store for an owner depends on
\* the owner's rows alone: it is what the query would find if no other owner
\* had stored a username (no row: "Username not found"; else a latest
\* updated peer of the owner that has a username row of the owner with this
\* name).
C21_ResolveSeesOwnRowsOnly ==
    [][\A p \in StoreProcs :
          LET c == scall[p]
              d == scall'[p]
              own == JoinByUsername(dbUsernames, c.name)
          IN (c.pc = "name_db" /\ d.pc # "name_db") =>
                /\ own = {} => d.res = "not_found"
                /\ own # {} => d.row \in own]_vars

PairProcs == 1..2

PairOwners == 1..2

InitPair == InitPool(SeqCap, SweepTtl, GocSids, 0, 2) /\ InitStorage

NextPair ==
    \/ \E p \in PairProcs, o \in PairOwners : GocCall(p, o)
    \/ \E p \in PairProcs : GocAcquire(p)
    \/ \E p \in PairProcs : GocLoad(p)
    \/ \E p \in PairProcs : GocCreate(p)
    \/ \E p \in PairProcs : GocStartOk(p)
    \/ \E p \in PairProcs : GocStartFail(p)

SpecPair == InitPair /\ [][NextPair]_vars

\* C22: get_or_create_session calls for different owners proceed
\* independently.  A call that waits can take its lock unless another call
\* for the same owner is past that lock; and a call that is past its lock can
\* always take its next step (credential load, construction, start), whatever the
\* calls for other owners are doing.
C22_OtherOwnersDoNotWait ==
    \A p \in PairProcs :
        LET c == call[p] IN
        /\ c.pc = "goc_wait" =>
              \/ ENABLED GocAcquire(p)
              \/ \E q \in PairProcs \ {p} :
                    /\ call[q].owner = c.owner
                    /\ call[q].lock = c.lock
                    /\ call[q].pc \in {"goc_load", "goc_create", "goc_start"}
        /\ c.pc = "goc_load" => ENABLED GocLoad(p)
        /\ c.pc = "goc_create" => ENABLED GocCreate(p)
        /\ c.pc = "goc_start" => ENABLED GocStartOk(p)

\* The first call, for owner 1, is still awaiting the start of the instance
\* it constructed first, and the second call, for owner 2, has constructed,
\* started and returned a later instance without ever waiting.
C22_Witness ==
    /\ call[1].pc = "goc_start" /\ call[1].owner = 1 /\ call[1].sid = 1
    /\ Returned(2, "goc") /\ call[2].owner = 2 /\ call[2].res = "ok"
    /\ call[2].rsid = 2 /\ ~call[2].waited

\* C23: flushing is idempotent.  A save() that follows a flush with no call
\* in between returns at once and writes nothing: the durable store, both
\* pending buffers, the caches and the counters are what they were.
C23_SecondFlushWritesNothing ==
    [][\A p \in StoreProcs :
          (FlushedLast(p) /\ scall'[p].op = "save" /\ scall'[p].twice) =>
              /\ scall'[p].pc = "idle"
              /\ scall'[p].res = "ok"
              /\ UNCHANGED <<storage, dbPeers, dbUsernames, dbUpdateState>>]_vars

\* A save() has followed a flush that left a peer and a username in the
\* durable store.
C23_Witness ==
    /\ scall[1].pc = "idle" /\ scall[1].op = "save" /\ scall[1].twice
    /\ scall[1].res = "ok"
    /\ dbPeers # {} /\ dbUsernames # {}
    /\ storage.lastFlushTime > 0

\* delete(): "raise NotImplementedError"
StDelete(p) ==
    /\ scall[p].pc = "idle"
    /\ scall' = [scall EXCEPT ![p] =
                    SFinish([SIdle EXCEPT !.op = "delete"], "not_implemented",
                            NoAddr)]
    /\ UNCHANGED <<poolVars, uow, storage, batchLock, dbPeers, dbUsernames,
                   dbUpdateState, otherUsernames, written, failed>>

InitDelete == InitPool(SeqCap, SweepTtl, 0, 0, 1) /\ InitStorage

NextDelete ==
    \/ \E t \in NameInputs : StUpdatePeers(1, <<t>>)
    \/ \E n \in Usernames : StUpdateUsernames(1, 1, {n})
    \/ StSave(1)
    \/ StFlushPeersOk(1)
    \/ StFlushUsernamesOk(1)
    \/ \E value \in UpdateStateArgs : StUpdateState(1, value)
    \/ StUpdateStateDb(1)
    \/ StDelete(1)

SpecDelete == InitDelete /\ [][NextDelete]_vars

\* C24: once delete() has been called on the storage of an owner, no
\* credential, peer, username or update state row of that owner is left in
\* the durable store, and the rows of the other owners are what they were.
C24_DeleteRemovesOwnRows ==
    [][\A p \in StoreProcs :
          (scall[p].pc = "idle" /\ scall'[p].op = "delete"
              /\ scall'[p].pc = "idle") =>
              /\ dbPeers' = {}
              /\ dbUsernames' = {}
              /\ dbUpdateState' = {}
              /\ telegramSessions'[storage.telegram_id] = 0
              /\ \A o \in Owners \ {storage.telegram_id} :
                    telegramSessions'[o] = telegramSessions[o]]_vars

RaceInputs == {t \in PeerTuples : t[3] = "user" /\ t[4] = ""}

\* A storage built for an owner whose peer 1 was stored by an earlier
\* instance: the row is in the durable store and the caches are empty.
InitRace ==
    /\ InitPool(SeqCap, SweepTtl, 0, 0, 1)
    /\ storage = NewStorage(1, 0)
    /\ batchLock = NoProc
    /\ dbPeers = {PeerObj(<<1, 1, "user", "">>, 0)}
    /\ dbUsernames = {}
    /\ dbUpdateState = {}
    /\ otherUsernames = {}
    /\ scall = [p \in StoreProcs |-> SIdle]
    /\ written = [i \in PeerIds |-> NotWritten]
    /\ failed = "none"

NextRace ==
    \/ \E p \in StoreProcs, t \in RaceInputs : StUpdatePeers(p, <<t>>)
    \/ \E p \in StoreProcs : StUpdatePeersAcquire(p)
    \/ \E p \in StoreProcs : StSave(p)
    \/ \E p \in StoreProcs : StFlushAcquire(p)
    \/ \E p \in StoreProcs : StFlushPeersOk(p)
    \/ \E p \in StoreProcs, i \in PeerIds : StGetPeerById(p, i)
    \/ \E p \in StoreProcs : StGetPeerDb(p)
    \/ \E p \in StoreProcs : StGetPeerAcquire(p)

SpecRace == InitRace /\ [][NextRace]_vars

\* C25: a read of the durable store never overwrites a newer cached write.
\* Once update_peers was given a peer and every call has returned, the peer
\* cache holds the access hash and the type given last, also when a
\* get_peer_by_id that missed the cache was awaiting its query meanwhile.
C25_StoreReadKeepsNewerWrite ==
    (\A p \in StoreProcs : scall[p].pc = "idle") =>
        \A i \in PeerIds :
            written[i].cur # NoPeer =>
                /\ storage.peerCache[i] # NoPeer
                /\ storage.peerCache[i].access_hash = written[i].cur.access_hash
                /\ storage.peerCache[i].type = written[i].cur.type

BatchInputs == {t \in RaceInputs : t[1] = 1 \/ t[2] = 1}

BatchNames == {{"ann"}, {"ann", "Bob"}}

InitBatch == InitPool(SeqCap, SweepTtl, 0, 0, 1) /\ InitStorage

NextBatch ==
    \/ \E p \in StoreProcs, t \in BatchInputs : StUpdatePeers(p, <<t>>)
    \/ \E p \in StoreProcs : StUpdatePeersAcquire(p)
    \/ \E p \in StoreProcs, names \in BatchNames :
          StUpdateUsernames(p, 1, names)
    \/ \E p \in StoreProcs : StUpdateUsernamesAcquire(p)
    \/ \E p \in StoreProcs : StSave(p)
    \/ \E p \in StoreProcs : StFlushAcquire(p)
    \/ \E p \in StoreProcs : StFlushPeersOk(p)
    \/ \E p \in StoreProcs : StFlushUsernamesOk(p)

SpecBatch == InitBatch /\ [][NextBatch]_vars

\* C26: no update is lost to batching.  At every moment the latest value of
\* each peer given to update_peers is in the pending buffer or in the durable
\* store, and a flush clears from a buffer only what it has written: a peer
\* or a username that leaves its buffer is stored for its peer.
C26_NoUpdateLost ==
    [][/\ \A i \in PeerIds :
             written'[i].cur # NoPeer =>
                 \/ storage'.pendingPeers[i] = written'[i].cur
                 \/ written'[i].cur \in dbPeers'
       /\ \A i \in PendingPeerIds(storage) :
             storage'.pendingPeers[i] = NoPeer =>
                 storage.pendingPeers[i] \in dbPeers'
       /\ \A i \in PeerIds :
             \A n \in storage.pendingUsernames[i].names :
                 n \notin storage'.pendingUsernames[i].names =>
                     [id |-> i, username |-> n] \in dbUsernames']_vars

\* Two callers of get_or_create_session and create_new_session for owner 1
\* and a third caller of stop_all_sessions.
InitBuild == InitPool(SeqCap, SweepTtl, GocSids, 0, 1) /\ InitStorage

NextBuild ==
    \/ \E p \in PairProcs : GocCall(p, 1)
    \/ \E p \in PairProcs : GocAcquire(p)
    \/ \E p \in PairProcs : GocLoad(p)
    \/ \E p \in PairProcs : GocCreate(p)
    \/ \E p \in PairProcs : GocStartOk(p)
    \/ \E p \in PairProcs : GocStartFail(p)
    \/ \E p \in PairProcs : CnCall(p, 1)
    \/ \E p \in PairProcs : CnCreate(p)
    \/ \E p \in PairProcs : CnOnboardSelect(p)
    \/ \E p \in PairProcs : CnOnboardInsert(p)
    \/ \E p \in PairProcs : CnAcquire(p)
    \/ \E p \in PairProcs : CnStartOk(p)
    \/ \E p \in PairProcs : CnStartFail(p)
    \/ StopAllCall(3)
    \/ \E raised \in BOOLEAN : StopAllStopped(3, raised)

SpecBuild == InitBuild /\ [][NextBuild]_vars

\* The calls that await TelegramUser.create or start() for owner o.
Building(o) ==
    {p \in Procs : /\ call[p].owner = o
                   /\ call[p].pc \in {"goc_create", "goc_start", "cn_create",
                                      "cn_start"}}

\* C27: at every moment at most one construction or start of a session of an
\* owner is awaited, whatever get_or_create_session, create_new_session and
\* stop_all_sessions calls are interleaved.
C27_OneBuildPerOwner ==
    \A o \in Owners : Cardinality(Building(o)) <= 1

\* Two callers of create_new_session, each call for an owner that is not
\* resident and that no call in flight is for.
CapOwners == 1..3

CnFresh(o) ==
    /\ ~Resident(o)
    /\ \A q \in PairProcs : call[q].pc # "idle" => call[q].owner # o

InitCap == InitPool(SeqCap, SweepTtl, LruSids, 0, 3) /\ InitStorage

NextCap ==
    \/ \E p \in PairProcs, o \in CapOwners : CnFresh(o) /\ CnCall(p, o)
    \/ \E p \in PairProcs : CnCreate(p)
    \/ \E p \in PairProcs : CnOnboardSelect(p)
    \/ \E p \in PairProcs : CnOnboardInsert(p)
    \/ \E p \in PairProcs : CnEvicted(p)
    \/ \E p \in PairProcs : CnStartOk(p)
    \/ \E p \in PairProcs : CnStartFail(p)

SpecCap == InitCap /\ [][NextCap]_vars

\* C28: once concurrent create_new_session calls for distinct owners that
\* were not resident have all returned, at most max_sessions sessions are
\* resident.
C28_CreatesKeepCapacity ==
    (\A p \in PairProcs : call[p].pc = "idle") => Len(sessions) <= maxSessions

\* One caller of create_new_session beside a caller of stop_session and the
\* cleanup task.
InitEvict == InitPool(SeqCap, SweepTtl, SeqSids, ShutTime, 3) /\ InitStorage

NextEvict ==
    \/ Tick
    \/ \E o \in CapOwners : CnFresh(o) /\ CnCall(1, o)
    \/ CnCreate(1)
    \/ CnOnboardSelect(1)
    \/ CnOnboardInsert(1)
    \/ CnEvicted(1)
    \/ CnStartOk(1)
    \/ \E o \in CapOwners : StopCall(2, o)
    \/ StopAcquire(2)
    \/ StopStopped(2)
    \/ SweepBegin
    \/ SweepAcquire
    \/ SweepStopped

SpecEvict == InitEvict /\ [][NextEvict]_vars

\* C29: eviction is idempotent under races.  When the stop() awaited by
\* _evict_lru_session returns, whatever a cleanup pass or a stop_session has
\* done to the evicted owner meanwhile, the eviction ends without raising and
\* create_new_session goes on to start its session.
C29_EvictionSurvivesRaces ==
    [][\A p \in Procs :
          (call[p].pc = "cn_evict" /\ call'[p].pc # "cn_evict") =>
              /\ call'[p].pc = "cn_start"
              /\ call'[p].res # "key_error"]_vars

\* The capacity eviction of create_new_session beside stop_session,
\* stop_all_sessions and the cleanup task.
InitOnce == InitPool(SeqCap, 0, StopSids, SeqTime, 3) /\ InitStorage

NextOnce ==
    \/ Tick
    \/ \E o \in CapOwners : CnFresh(o) /\ CnCall(1, o)
    \/ CnCreate(1)
    \/ CnOnboardSelect(1)
    \/ CnOnboardInsert(1)
    \/ CnEvicted(1)
    \/ CnStartOk(1)
    \/ \E o \in GocOwners : StopCall(2, o)
    \/ StopAcquire(2)
    \/ StopStopped(2)
    \/ SweepBegin
    \/ SweepAcquire
    \/ SweepStopped
    \/ StopAllCall(3)
    \/ \E raised \in BOOLEAN : StopAllStopped(3, raised)
    \/ SweepCancelled

SpecOnce == InitOnce /\ [][NextOnce]_vars

\* C30: no instance has its stop() invoked more than once, whatever capacity
\* evictions, cleanup passes, stop_session and stop_all_sessions calls are
\* interleaved.
C30_StoppedAtMostOnce ==
    \A s \in Sids : stops[s] <= 1

\* The eviction still awaits the stop() of its victim, and the recency entry
\* of the victim has been deleted meanwhile by another of the stop paths.
C30_Witness ==
    /\ call[1].pc = "cn_evict"
    /\ ~LaHas(lastAccess, call[1].victim)
    /\ stops[call[1].vsid] = 0
    /\ \E s \in Sids : stops[s] = 1

\* No eviction, stop_session, stop_all_sessions or cleanup removal is awaiting
\* a stop().
NoRemoval ==
    /\ \A p \in Procs : call[p].pc \notin {"cn_evict", "stop_wait", "stop_stop",
                                           "all_stop"}
    /\ sweep.pc \notin {"stop", "wait"}
    /\ ~sweep.cancel

\* C31: the bookkeeping always completes.  Whenever no removal is in flight,
\* the owners that have a recency entry are the resident owners, also after
\* a stop() raised and after stop_all_sessions cancelled the cleanup task in
\* the middle of a removal.
C31_RecencyIsRegistry ==
    NoRemoval => LaKeys(lastAccess) = Range(sessions)

C33_StaleCachedNameExpires ==
    [][\A p \in StoreProcs :
          LET c == scall[p]
              d == scall'[p]
              i == storage.usernameCache[Lower(c.name)]
          IN (/\ c.pc = "name_db" /\ d.pc = "idle"
              /\ i # 0
              /\ storage.peerCache[i] # NoPeer
              /\ ~Fresh(storage.peerCache[i], now))
             => d.res = "expired"]_vars

\* C34: the flush check at the end of update_peers and update_usernames goes
\* on to write if and only if a pending buffer is not empty and the operation
\* count has reached BATCH_SIZE, or the pending peers PEERS_THRESHOLD, or the
\* time since the last flush BATCH_TIME; and a flush that has written resets
\* the operation count and the last-flush time.
C34_FlushOnlyWhenDue ==
    [][\A p \in StoreProcs :
          LET c == scall[p]
              d == scall'[p]
              self == storage'
          IN /\ (/\ d.op \in {"update_peers", "update_usernames"}
                 /\ d.pc \in {"idle", "flush_peers", "flush_usernames"}
                 /\ \/ /\ c.pc \in {"idle", "up_wait", "un_wait"}
                       /\ self.operationCount = storage.operationCount + 1
                    \/ c.pc = "flush_wait" /\ ~c.force)
                => (d.pc \in {"flush_peers", "flush_usernames"} <=>
                      /\ PendingPeerIds(self) # {} \/ QueuedUsernameIds(self) # {}
                      /\ \/ self.operationCount >= BatchSize
                         \/ Cardinality(PendingPeerIds(self)) >= PeersThreshold
                         \/ now - self.lastFlushTime >= BatchTime)
             /\ (/\ c.pc \in {"flush_peers", "flush_usernames"}
                 /\ d.pc = "idle" /\ d.res = "ok")
                => /\ self.operationCount = 0
                   /\ self.lastFlushTime = now]_vars

\* An update_usernames call has ended with a flush that the clock made due:
\* fewer operations than BATCH_SIZE were counted, the usernames are stored
\* and the counters are reset.
C34_Witness ==
    /\ scall[1].pc = "idle" /\ scall[1].op = "update_usernames"
    /\ scall[1].res = "ok"
    /\ storage.operationCount = 0
    /\ storage.lastFlushTime = now /\ now > 0
    /\ dbUsernames # {}
    /\ QueuedUsernameIds(storage) = {}

\* C35: no started session is leaked.  Whenever no call is in flight, every
\* instance whose start() returned and that is not in the registry has had
\* its stop() invoked, also the instance that create_new_session replaced
\* for an owner that was resident.
C35_NoStartedSessionLeaked ==
    (/\ \A p \in Procs : call[p].pc = "idle"
     /\ sweep.pc # "stop")
    => \A s \in Sids :
          (started[s] = "yes" /\ \A o \in Owners : sessionOf[o] # s) =>
              stops[s] >= 1

\* Two callers of get_or_create_session and create_new_session, whose calls
\* all begin before the one stop_all_sessions call of a third caller.
NotShutDown == call[3].op = "none"

InitDown == InitPool(SeqCap, SweepTtl, GocSids, 0, 2) /\ InitStorage

NextDown ==
    \/ \E p \in PairProcs, o \in PairOwners : NotShutDown /\ GocCall(p, o)
    \/ \E p \in PairProcs : GocAcquire(p)
    \/ \E p \in PairProcs : GocLoad(p)
    \/ \E p \in PairProcs : GocCreate(p)
    \/ \E p \in PairProcs : GocStartOk(p)
    \/ \E p \in PairProcs : GocStartFail(p)
    \/ \E p \in PairProcs, o \in PairOwners : NotShutDown /\ CnCall(p, o)
    \/ \E p \in PairProcs : CnCreate(p)
    \/ \E p \in PairProcs : CnOnboardSelect(p)
    \/ \E p \in PairProcs : CnOnboardInsert(p)
    \/ \E p \in PairProcs : CnAcquire(p)
    \/ \E p \in PairProcs : CnStartOk(p)
    \/ \E p \in PairProcs : CnStartFail(p)
    \/ NotShutDown /\ StopAllCall(3)
    \/ \E raised \in BOOLEAN : StopAllStopped(3, raised)

SpecDown == InitDown /\ [][NextDown]_vars

\* C36: shutdown leaves the pool empty.  Once stop_all_sessions has returned
\* and the calls that were in flight when it ran have ended, no call having
\* begun after it, no session is resident.
C36_ShutdownLeavesPoolEmpty ==
    (/\ call[3].pc = "idle" /\ call[3].op = "stop_all"
     /\ \A p \in PairProcs : call[p].pc = "idle")
    => sessions = <<>>

\* C37: a create_new_session that fails because start() raised changes no
\* residency: it has evicted and stopped no session, and the registry and
\* the recency map are left as they were.
C37_FailedCreateEvictsNothing ==
    [][\A p \in Procs :
          (/\ call[p].pc = "cn_start"
           /\ call'[p].pc = "idle" /\ call'[p].res = "start_failed")
          => /\ call[p].victim = NoOwner
             /\ UNCHANGED <<sessions, sessionOf, lastAccess>>]_vars

\* get_or_create_session under the scheduling of the event loop: a query
\* that was sent is answered, a construction ends, and a caller waiting for
\* a lock gets it once it is released (asyncio.Lock wakes its waiters in
\* turn).  Nothing makes "await user_session.start()" end.
FairPair ==
    \A p \in PairProcs :
        /\ WF_vars(GocLoad(p))
        /\ WF_vars(GocCreate(p))
        /\ SF_vars(GocAcquire(p))

SpecLive == InitPair /\ [][NextPair]_vars /\ FairPair

\* C38: every get_or_create_session call eventually returns, also when the
\* start() it awaits never completes: it then ends with a failure and
\* releases the lock of its owner.
C38_EveryCallReturns ==
    \A p \in PairProcs : (call[p].pc # "idle") ~> (call[p].pc = "idle")

UowStart(t) ==
    /\ uow.task[t].pc = "idle"
    /\ uow.session # NoSession \/ uow.next <= UowSessions
    /\ IF uow.session # NoSession
       THEN uow' = [uow EXCEPT !.task[t].res = "already_active"]
       ELSE uow' = [uow EXCEPT !.token = [ctx |-> t, old |-> uow.task[t].cur],
                               !.task[t].cur = TRUE,
                               !.task[t].pc = "acquiring",
                               !.task[t].res = "none"]
    /\ UNCHANGED <<poolVars, storeVars>>

\* The factory has given its session: "self._session = session", then the
\* body of the caller runs.
UowAcquired(t) ==
    /\ uow.task[t].pc = "acquiring"
    /\ uow' = [uow EXCEPT !.session = uow.next,
                          !.next = @ + 1,
                          !.task[t].session = uow.next,
                          !.task[t].pc = "active"]
    /\ UNCHANGED <<poolVars, storeVars>>

\* The factory raises on entry: the exception leaves start() before its
\* "try", so nothing is cleaned up.
UowAcquireFail(t) ==
    /\ uow.task[t].pc = "acquiring"
    /\ uow' = [uow EXCEPT !.task[t].pc = "idle",
                          !.task[t].res = "factory_error"]
    /\ UNCHANGED <<poolVars, storeVars>>

\* The body of the caller ends or raises: "finally" clears the session and
\* resets the context variable with the kept token, which raises ValueError
\* (logged) in another context than the token's.
UowExit(t, raised) ==
    /\ uow.task[t].pc = "active"
    /\ uow' = [uow EXCEPT
                 !.session = NoSession,
                 !.token = NoToken,
                 !.task[t] = [pc |-> "idle", session |-> NoSession,
                              res |-> IF raised THEN "raised" ELSE "ok",
                              cur |-> IF uow.token.ctx = t THEN uow.token.old
                                                          ELSE @.cur]]
    /\ UNCHANGED <<poolVars, storeVars>>

InitUow == InitPool(SeqCap, SweepTtl, 0, 0, 0) /\ InitStorage

NextUow ==
    \/ \E t \in UowTasks : UowStart(t)
    \/ \E t \in UowTasks : UowAcquired(t)
    \/ \E t \in UowTasks : UowAcquireFail(t)
    \/ \E t \in UowTasks, raised \in BOOLEAN : UowExit(t, raised)

SpecUow == InitUow /\ [][NextUow]_vars

====
